---- MODULE Spec2Model ----
(***************************************************************************)
(* Accounting core of the wowswap program: the fixed-point kernel          *)
(* (math.rs), the reserve accounting (reserve.rs), the governance getters  *)
(* (governance.rs) and the position handlers open / close / liquidate      *)
(* (swap.rs), with the order venue (dex.rs) and the token program          *)
(* (token.rs) as environment.                                              *)
(*                                                                         *)
(* TLC evaluates 32-bit integers, so the decimal scales of math.rs are     *)
(* modelled with shorter exponents: Ray::ONE = 10^18 is 10^4 here,         *)
(* Wad::ONE = 10^9 is 10^2, Rate::RAY_RATIO = 10^9 is 10, and Governance's *)
(* ACCURACY_DIVISOR = 10^18 is 10.  Factor::ONE keeps its value 10_000.    *)
(* All relations between the scales (HALF = ONE / 2, Ray = Wad * 10^9,     *)
(* Rate = Ray * RAY_RATIO) are those of the source.  Token amounts stay    *)
(* far below u64::MAX, so the overflow branches of the checked operations  *)
(* are not taken; their underflow and division-by-zero branches are.       *)
(***************************************************************************)
EXTENDS Integers, Sequences, FiniteSets, TLC

\* ------------------------------------------------------------------------
\* Bounds of the exploration
\* ------------------------------------------------------------------------
MaxOps == 3
MaxTime == 1

\* The result of a checked operation that returned None / panicked.
None == 0 - 1

IsNone(x) == x < 0

\* ------------------------------------------------------------------------
\* math.rs : numeric kernel
\* ------------------------------------------------------------------------
FactorONE == 10000
FactorHALF == 5000
WadONE == 100
WadHALF == 50
RayONE == 10000
RayHALF == 5000
RAY_RATIO == 10
WadRayRatio == 100

checked_sub(a, b) == IF IsNone(a) \/ IsNone(b) \/ a < b THEN None ELSE a - b

checked_add(a, b) == IF IsNone(a) \/ IsNone(b) THEN None ELSE a + b

checked_div(a, b) == IF IsNone(a) \/ IsNone(b) \/ b = 0 THEN None ELSE a \div b

Min(a, b) == IF a < b THEN a ELSE b

\* Factor::percentage_mul : (value * self + HALF) / ONE
percentage_mul(self, value) ==
    IF IsNone(self) \/ IsNone(value) THEN None
    ELSE (value * self + FactorHALF) \div FactorONE

\* Factor::invert
Factor_invert(self) == checked_sub(FactorONE, self)

\* Wad::wad_mul : (a * b + HALF_WAD) / WAD
wad_mul(a, b) ==
    IF IsNone(a) \/ IsNone(b) THEN None
    ELSE (a * b + WadHALF) \div WadONE

\* Wad::wad_div : (a * WAD + b / 2) / b
wad_div(a, b) ==
    IF IsNone(a) \/ IsNone(b) \/ b = 0 THEN None
    ELSE (a * WadONE + (b \div 2)) \div b

\* Wad::into_ray : a * 1e+9
Wad_into_ray(a) == IF IsNone(a) THEN None ELSE a * WadRayRatio

\* Ray::ray_mul : (a * b + HALF_RAY) / RAY
ray_mul(a, b) ==
    IF IsNone(a) \/ IsNone(b) THEN None
    ELSE (a * b + RayHALF) \div RayONE

\* Ray::ray_div without the half of the divisor
ray_div_truncating(a, b) ==
    IF IsNone(a) \/ IsNone(b) \/ b = 0 THEN None
    ELSE (a * RayONE) \div b

\* Ray::ray_div : (a * RAY + b / 2) / b
ray_div(a, b) ==
    IF IsNone(a) \/ IsNone(b) \/ b = 0 THEN None
    ELSE (a * RayONE + (b \div 2)) \div b

\* Ray::invert
Ray_invert(self) == checked_sub(RayONE, self)

\* Rate::into_ray : truncating division by RAY_RATIO
Rate_into_ray(rate) == IF IsNone(rate) THEN None ELSE rate \div RAY_RATIO

\* Ray::as_rate : multiplication by RAY_RATIO
as_rate(ray) == IF IsNone(ray) THEN None ELSE ray * RAY_RATIO

\* liquidity::calculate_share
calculate_share(partion, total, total_liquidity) ==
    LET share == IF total = 0 THEN 0 ELSE wad_div(partion, total)
    IN  wad_mul(share, total_liquidity)

\* liquidity::mint_amount
mint_amount(amount, total_supply, total_liquidity) ==
    LET index == IF total_supply = 0 \/ total_liquidity = 0
                 THEN WadONE
                 ELSE wad_div(total_supply, total_liquidity)
    IN  wad_mul(amount, index)

\* A loop that stops one term earlier.
RECURSIVE compounded_loop_short(_, _, _, _, _)
compounded_loop_short(rate_ray, exp, i, el, result) ==
    IF i > 3 \/ exp - i <= 0 THEN result
    ELSE LET el1 == el * (exp - i)
             el2 == ray_mul(rate_ray, el1) \div (i + 1)
         IN  compounded_loop_short(rate_ray, exp, i + 1, el2, result + el2)

\* interest::calculate_compounded, the loop `for i in 1..5`
RECURSIVE compounded_loop(_, _, _, _, _)
compounded_loop(rate_ray, exp, i, el, result) ==
    IF i > 4 \/ exp - i <= 0 THEN result
    ELSE LET el1 == el * (exp - i)
             el2 == ray_mul(rate_ray, el1) \div (i + 1)
         IN  compounded_loop(rate_ray, exp, i + 1, el2, result + el2)

\* A compounding that leaves the linear term out of the sum once the loop
\* adds higher terms.
calculate_compounded_without_linear_term(rate, last_timestamp, timestamp) ==
    LET rate_ray == Rate_into_ray(rate)
        exp == checked_sub(timestamp, last_timestamp)
    IN  IF IsNone(exp) \/ IsNone(rate_ray) THEN None
        ELSE IF exp = 0 THEN RayONE
        ELSE LET el == rate_ray * exp
             IN  IF exp = 1 THEN RayONE + el
                 ELSE compounded_loop(rate_ray, exp, 1, el, RayONE)

\* interest::calculate_compounded
calculate_compounded(rate, last_timestamp, timestamp) ==
    LET rate_ray == Rate_into_ray(rate)
        exp == checked_sub(timestamp, last_timestamp)
    IN  IF IsNone(exp) \/ IsNone(rate_ray) THEN None
        ELSE IF exp = 0 THEN RayONE
        ELSE LET el == rate_ray * exp
             IN  compounded_loop(rate_ray, exp, 1, el, RayONE + el)

\* A utilization that is zero for a reserve with neither debt nor liquidity.
calculate_utilization_zero_when_empty(debt, liquidity) ==
    IF debt = 0 /\ liquidity = 0 THEN 0
    ELSE ray_div(debt, checked_add(liquidity, debt))

\* interest::calculate_utilization
calculate_utilization(debt, liquidity) ==
    ray_div(debt, checked_add(liquidity, debt))

\* interest::borrow_rate whose excess branch starts from the base rate alone
borrow_rate_excess_from_base(debt, liquidity, base_borrow_rate, excess_slope, optimal_slope, optimal_utilization) ==
    LET utilization == calculate_utilization(debt, liquidity)
        diff == checked_sub(utilization, optimal_utilization)
    IN  IF IsNone(utilization) THEN None
        ELSE IF ~IsNone(diff) /\ diff # 0
        THEN LET excess_rate_ratio == ray_div(diff, Ray_invert(optimal_utilization))
                 extra == ray_mul(excess_slope, excess_rate_ratio)
             IN  as_rate(checked_add(Rate_into_ray(base_borrow_rate), extra))
        ELSE as_rate(checked_add(
                 Rate_into_ray(base_borrow_rate),
                 ray_mul(optimal_slope, ray_div(utilization, optimal_utilization))))

\* interest::borrow_rate
borrow_rate(debt, liquidity, base_borrow_rate, excess_slope, optimal_slope, optimal_utilization) ==
    LET utilization == calculate_utilization(debt, liquidity)
        diff == checked_sub(utilization, optimal_utilization)
    IN  IF IsNone(utilization) THEN None
        ELSE IF ~IsNone(diff) /\ diff # 0
        THEN LET excess_rate_ratio == ray_div(diff, Ray_invert(optimal_utilization))
                 extra == ray_mul(excess_slope, excess_rate_ratio)
             IN  as_rate(checked_add(
                     checked_add(Rate_into_ray(base_borrow_rate), optimal_slope),
                     extra))
        ELSE as_rate(checked_add(
                 Rate_into_ray(base_borrow_rate),
                 ray_mul(optimal_slope, ray_div(utilization, optimal_utilization))))

\* ------------------------------------------------------------------------
\* State
\* ------------------------------------------------------------------------
VARIABLES
    governance,             \* Governance account (raw u128 fields)
    reserve,                \* Reserve account: state and debt
    swap,                   \* Swap account: state.total_loan
    position,               \* SwapPosition.state of every trader
    reserve_lendable_vault, \* token balance of the reserve's lendable vault
    reserve_redeemable_mint,\* supply of the reserve's redeemable token
    swap_coin_vault,        \* token balance of the swap's coin vault
    swap_pc_vault,          \* token balance of the swap's pc vault
    proxy_token_account,    \* receipt-token balance of every trader
    now,                    \* Clock::get().unix_timestamp
    last,                   \* the last instruction: inputs, clock, result, effects
    nops,                   \* number of instructions processed
    ledger,                 \* amounts passed to increase_debt / decrease_debt
                            \* when they are called on their own (SpecDebt)
    call                    \* a call of the numeric kernel on its own (SpecMath)

vars == <<governance, reserve, swap, position, reserve_lendable_vault,
          reserve_redeemable_mint, swap_coin_vault, swap_pc_vault,
          proxy_token_account, now, last, nops, ledger, call>>

Traders == {1, 2}

\* MarketState lot sizes of the venue's market
CoinLot == 2
PcLot == 2

\* ------------------------------------------------------------------------
\* governance.rs
\* ------------------------------------------------------------------------
ACCURACY_DIVISOR == 10

\* Governance::apply_accuracy
apply_accuracy(value) == value \div ACCURACY_DIVISOR

pool_utilization_allowance(g) == apply_accuracy(g.pool_utilization_allowance)

base_borrow_rate(g) == g.base_borrow_rate

excess_slope(g) == g.excess_slope

optimal_slope(g) == g.optimal_slope

optimal_utilization(g) == g.optimal_utilization

treasure_factor(g) == apply_accuracy(g.treasure_factor)

max_leverage_factor(g) == apply_accuracy(g.max_leverage_factor)

max_rate_multiplier(g) == apply_accuracy(g.max_rate_multiplier)

liquidation_margin(g) == apply_accuracy(g.liquidation_margin)

liquidation_reward(g) == apply_accuracy(g.liquidation_reward)

max_liquidation_reward(g) == apply_accuracy(g.max_liquidation_reward)

\* The configurations governance_initialize is called with: a two-slope
\* rate model with its kink at 15% utilization.  Rates are per unit of the
\* clock; one unit of the model's clock stands for a long period.
GovernanceBase ==
    [ pool_utilization_allowance |-> 40003,
      base_borrow_rate           |-> 105,
      excess_slope               |-> 10000,
      optimal_slope              |-> 300,
      optimal_utilization        |-> 1500,
      treasure_factor            |-> 50000,
      max_leverage_factor        |-> 300000,
      max_rate_multiplier        |-> 200000,
      liquidation_margin         |-> 40000,
      liquidation_reward         |-> 10000,
      max_liquidation_reward     |-> 20 ]

GovernanceConfigs ==
    { GovernanceBase,
      [GovernanceBase EXCEPT !.max_liquidation_reward = 0] }

\* ------------------------------------------------------------------------
\* swap.rs : SwapPositionState
\* ------------------------------------------------------------------------
\* SwapPositionState::get_debt
get_debt(self, timestamp) ==
    LET c == calculate_compounded(self.rate, self.timestamp, timestamp)
    IN  ray_mul(self.amount, c)

\* SwapPositionState::calculate_debt_increase : (current_debt, increase)
calculate_debt_increase(self, timestamp) ==
    IF self.amount = 0 THEN <<0, 0>>
    ELSE LET current_debt == get_debt(self, timestamp)
         IN  <<current_debt, checked_sub(current_debt, self.amount)>>

ZeroPosition == [loan |-> 0, rate |-> 0, amount |-> 0, timestamp |-> 0]

\* ------------------------------------------------------------------------
\* reserve.rs
\* ------------------------------------------------------------------------
\* ReserveDebt::get_total_debt
get_total_debt(debt, timestamp) ==
    ray_mul(debt.total,
            calculate_compounded(debt.average_rate, debt.last_update, timestamp))

\* A fee accounting that forgets what was accrued before.
get_liquidity_fee_accrued_fee_only(self, g, current_debt) ==
    IF current_debt = 0 THEN 0
    ELSE percentage_mul(
             treasure_factor(g),
             checked_sub(current_debt,
                         ray_mul(self.debt.total,
                                 calculate_compounded(self.debt.average_rate,
                                                      self.debt.last_update,
                                                      self.state.treasurer_update))))

\* Reserve::get_liquidity_fee_accrued
get_liquidity_fee_accrued(self, g, current_debt) ==
    LET fee ==
          IF current_debt = 0 THEN 0
          ELSE LET previous_debt ==
                     ray_mul(self.debt.total,
                             calculate_compounded(self.debt.average_rate,
                                                  self.debt.last_update,
                                                  self.state.treasurer_update))
                   debt_accrued == checked_sub(current_debt, previous_debt)
               IN  percentage_mul(treasure_factor(g), debt_accrued)
    IN  checked_add(self.state.treasure_accrued, fee)

\* Reserve::update_state that leaves the treasury checkpoint where it was
update_state_keep_checkpoint(self, g, total_debt, timestamp) ==
    [self EXCEPT
        !.state.treasure_accrued = get_liquidity_fee_accrued(self, g, total_debt)]

\* Reserve::update_state that moves the checkpoint to the debt's last update
update_state_checkpoint_at_last_update(self, g, total_debt, timestamp) ==
    [self EXCEPT
        !.state.treasure_accrued = get_liquidity_fee_accrued(self, g, total_debt),
        !.state.treasurer_update = self.debt.last_update]

\* Reserve::update_state
update_state(self, g, total_debt, timestamp) ==
    [self EXCEPT
        !.state.treasure_accrued = get_liquidity_fee_accrued(self, g, total_debt),
        !.state.treasurer_update = timestamp]

\* Reserve::get_total_liquidity
get_total_liquidity(self, total_debt, liquidity) ==
    checked_sub(checked_add(total_debt, liquidity), self.state.treasure_accrued)

\* Reserve::update_borrow_rate
update_borrow_rate(self, g, liquidity, liquidity_added, liquidity_removed, total_debt, debt_added, debt_removed) ==
    LET debt == checked_sub(checked_add(total_debt, debt_added), debt_removed)
        liq == checked_sub(checked_add(liquidity, liquidity_added), liquidity_removed)
    IN  [self EXCEPT
            !.state.borrow_rate =
                IF IsNone(debt) \/ IsNone(liq) THEN None
                ELSE borrow_rate(debt, liq, base_borrow_rate(g), excess_slope(g),
                                 optimal_slope(g), optimal_utilization(g))]

\* Reserve::increase_debt : <<reserve, position>>
increase_debt(self, pos, timestamp, previous_total, amount, rate_multiplier) ==
    LET rate == percentage_mul(rate_multiplier, self.state.borrow_rate)
        amount_ray_rate == ray_mul(Wad_into_ray(amount), Rate_into_ray(rate))
        di == calculate_debt_increase(pos, timestamp)
        current_debt == di[1]
        debt_increase == di[2]
        next_total == checked_add(previous_total, amount)
        pos_amount == checked_add(checked_add(pos.amount, amount), debt_increase)
        pos_rate ==
            as_rate(ray_div(
                checked_add(ray_mul(Rate_into_ray(pos.rate), Wad_into_ray(current_debt)),
                            amount_ray_rate),
                Wad_into_ray(checked_add(current_debt, amount))))
        average_rate ==
            as_rate(ray_div(
                checked_add(ray_mul(Rate_into_ray(self.debt.average_rate),
                                    Wad_into_ray(previous_total)),
                            amount_ray_rate),
                Wad_into_ray(next_total)))
    IN  << [self EXCEPT !.debt.total = next_total,
                        !.debt.average_rate = average_rate,
                        !.debt.last_update = timestamp],
           [pos EXCEPT !.amount = pos_amount,
                       !.rate = pos_rate,
                       !.timestamp = timestamp] >>

\* A pool side that zeroes the total of a fully repaid pool but keeps its
\* average rate.
decrease_debt_pool_keep_rate(self, pos, reserve_total_debt, debt_change) ==
    IF reserve_total_debt <= debt_change THEN <<0, self.debt.average_rate>>
    ELSE LET next_total == reserve_total_debt - debt_change
             first_term == ray_mul(Rate_into_ray(self.debt.average_rate),
                                   Wad_into_ray(reserve_total_debt))
             second_term == ray_mul(Rate_into_ray(pos.rate),
                                    Wad_into_ray(debt_change))
         IN  IF second_term >= first_term THEN <<0, 0>>
             ELSE <<next_total,
                    as_rate(ray_div(first_term - second_term,
                                    Wad_into_ray(next_total)))>>

\* Reserve::decrease_debt, the pool side : <<total, average_rate>>
decrease_debt_pool(self, pos, reserve_total_debt, debt_change) ==
    IF reserve_total_debt <= debt_change THEN <<0, 0>>
    ELSE LET next_total == reserve_total_debt - debt_change
             first_term == ray_mul(Rate_into_ray(self.debt.average_rate),
                                   Wad_into_ray(reserve_total_debt))
             second_term == ray_mul(Rate_into_ray(pos.rate),
                                    Wad_into_ray(debt_change))
         IN  IF second_term >= first_term THEN <<0, 0>>
             ELSE <<next_total,
                    as_rate(ray_div(first_term - second_term,
                                    Wad_into_ray(next_total)))>>

\* A position side that keeps rate and timestamp of a fully repaid position.
decrease_debt_position_keep(pos, timestamp, debt_change) ==
    LET di == calculate_debt_increase(pos, timestamp)
    IN  [pos EXCEPT
            !.amount = checked_sub(checked_add(pos.amount, di[2]), debt_change),
            !.timestamp = timestamp]

\* Reserve::decrease_debt, the position side
decrease_debt_position(pos, timestamp, debt_change) ==
    LET di == calculate_debt_increase(pos, timestamp)
        current_debt == di[1]
        debt_increase == di[2]
    IN  IF debt_change = current_debt THEN
            [pos EXCEPT !.rate = 0, !.amount = 0, !.timestamp = 0]
        ELSE
            [pos EXCEPT
                !.amount = checked_sub(checked_add(pos.amount, debt_increase),
                                       debt_change),
                !.timestamp = timestamp]

\* A decrease that subtracts the repayment from the pool's recorded total and
\* so loses the interest accrued since the last update.
decrease_debt_from_recorded_total(self, pos, timestamp, reserve_total_debt, debt_change) ==
    LET pool == decrease_debt_pool(self, pos, reserve_total_debt, debt_change)
    IN  << [self EXCEPT !.debt.total = checked_sub(self.debt.total, debt_change),
                        !.debt.average_rate = pool[2],
                        !.debt.last_update = timestamp],
           decrease_debt_position(pos, timestamp, debt_change) >>

\* Reserve::decrease_debt : <<reserve, position>>
decrease_debt(self, pos, timestamp, reserve_total_debt, debt_change) ==
    LET pool == decrease_debt_pool(self, pos, reserve_total_debt, debt_change)
    IN  << [self EXCEPT !.debt.total = pool[1],
                        !.debt.average_rate = pool[2],
                        !.debt.last_update = timestamp],
           decrease_debt_position(pos, timestamp, debt_change) >>

\* A reserve or position record holding the result of a failed checked
\* operation: the instruction panicked while computing it.
ReservePanicked(r) ==
    \/ IsNone(r.state.borrow_rate) \/ IsNone(r.state.treasure_accrued)
    \/ IsNone(r.debt.total) \/ IsNone(r.debt.average_rate)

PositionPanicked(s) ==
    IsNone(s.loan) \/ IsNone(s.rate) \/ IsNone(s.amount)

\* ------------------------------------------------------------------------
\* Instructions: common shape of a handler's outcome
\* ------------------------------------------------------------------------
\* What an instruction moved: filled = coin received from / sold to the
\* venue (native units), proceeds = pc paid by the venue for a sale,
\* debt = the position's projected debt when the handler read it,
\* loan = the loan change it registered, debt_change = the repayment it
\* passed to decrease_debt, pool_debt = the pool's projected debt it passed
\* along with it.
NoEffects ==
    [ filled |-> 0, proceeds |-> 0, reward |-> 0, to_reserve |-> 0,
      to_trader |-> 0, minted |-> 0, burned |-> 0, loan |-> 0, debt |-> 0,
      debt_change |-> 0, pool_debt |-> 0 ]

\* Err(..) / panic: the transaction is rolled back, `st` is not applied.
Abort(err, trace, eff) ==
    [ res |-> err, trace |-> trace, eff |-> eff,
      st |-> [ reserve |-> reserve, total_loan |-> 0, pos |-> ZeroPosition,
               lendable |-> 0, redeemable |-> 0, coin |-> 0, pc |-> 0,
               proxy |-> 0 ] ]

\* Err(..) / panic after the handler had already written `st` to the
\* accounts and moved tokens.
AbortAfter(err, trace, eff, st) ==
    [ res |-> err, trace |-> trace, eff |-> eff, st |-> st ]

Commit(trace, eff, st) ==
    [ res |-> "Ok", trace |-> trace, eff |-> eff, st |-> st ]

\* ------------------------------------------------------------------------
\* swap.rs : SwapPositionOpen
\* ------------------------------------------------------------------------
\* A check that refuses the maximum leverage itself.
valid_leverage_factor_below_max(g, leverage_factor) ==
    leverage_factor >= FactorONE /\ leverage_factor < max_leverage_factor(g)

\* SwapPositionOpen::handle, the check of leverage_factor
valid_leverage_factor(g, leverage_factor) ==
    leverage_factor >= FactorONE /\ leverage_factor <= max_leverage_factor(g)

\* A multiplier that ignores the leverage.
rate_multiplier_flat(g, leverage_factor) == FactorONE

\* SwapPositionOpen::handle, the rate multiplier of a new borrow
rate_multiplier(g, leverage_factor) ==
    LET a == checked_sub(leverage_factor, FactorONE)
        m == checked_sub(max_rate_multiplier(g), FactorONE)
        d == checked_sub(max_leverage_factor(g), FactorONE)
    IN  IF IsNone(a) \/ IsNone(m) \/ IsNone(d) THEN None
        ELSE checked_add(checked_div(a * m, d), FactorONE)

\* A borrow limit one unit higher: it admits total_loan = limit.
borrow_limit_inclusive(g, self, total_debt, liquidity) ==
    percentage_mul(pool_utilization_allowance(g),
                   get_total_liquidity(self, total_debt, liquidity)) + 1

\* SwapPositionOpen::handle, the borrow limit of the pool
borrow_limit(g, self, total_debt, liquidity) ==
    percentage_mul(pool_utilization_allowance(g),
                   get_total_liquidity(self, total_debt, liquidity))

\* SwapPositionOpen::handle, the amount minted by mint_proxy_token
open_mint_amount(native_coin_qty, filled) == native_coin_qty

\* An update that adds the new loan to the pool's recorded total instead of
\* the total projected to the timestamp.
open_reserve_update_state_recorded_total(self, g, pos, liquidity, timestamp, total_debt, amount, multiplier) ==
    LET r1 == update_state(self, g, total_debt, timestamp)
        r2 == update_borrow_rate(r1, g, liquidity, 0, amount,
                                 total_debt, amount, 0)
    IN  increase_debt(r2, pos, timestamp, self.debt.total, amount, multiplier)

\* SwapPositionOpen::reserve_update_state : <<reserve, position>>
open_reserve_update_state(self, g, pos, liquidity, timestamp, total_debt, amount, multiplier) ==
    LET r1 == update_state(self, g, total_debt, timestamp)
        r2 == update_borrow_rate(r1, g, liquidity, 0, amount,
                                 total_debt, amount, 0)
    IN  increase_debt(r2, pos, timestamp, total_debt, amount, multiplier)

\* SwapPositionOpen::handle.  timestamp is UnixTimestamp::now(); fill (lots)
\* and exec_price are the venue's answer to the immediate-or-cancel buy order.
SwapPositionOpen(timestamp, p, limit_price, coin_qty, leverage_factor, fill, exec_price) ==
    LET g == governance
        pos == position[p]
        coin_qty_loan ==
            percentage_mul(checked_sub(leverage_factor, FactorONE), coin_qty)
        coin_qty_all == coin_qty + coin_qty_loan
        native_coin_qty == coin_qty_all * CoinLot
        pc_lot_limit_price == limit_price * PcLot
        loan0 == pc_lot_limit_price * coin_qty_loan
        including_fees == pc_lot_limit_price * coin_qty_all
        \* take_reserve_funds, take_trader_funds
        pc1 == swap_pc_vault + including_fees
        \* make_swap: new_order (Bid, ImmediateOrCancel) + settle_funds
        cost == fill * exec_price * PcLot
        filled == fill * CoinLot
        pc2 == pc1 - cost
        \* return_reserve_funds
        return_amount == IF loan0 > 0 THEN Min(loan0, pc2) ELSE 0
        loan == loan0 - return_amount
        pc3 == pc2 - return_amount
        total_loan == swap.state.total_loan + loan
        pos1 == [pos EXCEPT !.loan = pos.loan + loan]
        total_debt == get_total_debt(reserve.debt, timestamp)
        limit == borrow_limit(g, reserve, total_debt, reserve_lendable_vault)
        multiplier == rate_multiplier(g, leverage_factor)
        upd == open_reserve_update_state(reserve, g, pos1, reserve_lendable_vault,
                                         timestamp, total_debt, loan, multiplier)
        minted == open_mint_amount(native_coin_qty, filled)
        t1 == IF loan0 > 0 THEN <<"take_reserve_funds">> ELSE <<>>
        t2 == t1 \o <<"take_trader_funds", "buy">>
        t3 == IF loan0 > 0 THEN t2 \o <<"return_reserve_funds">> ELSE t2
        eff == [NoEffects EXCEPT !.filled = filled, !.loan = loan,
                                 !.to_reserve = return_amount,
                                 !.to_trader = pc3, !.minted = minted,
                                 !.debt = IF IsNone(total_debt) THEN 0 ELSE total_debt]
        st(r, ps) ==
            [ reserve |-> r, total_loan |-> total_loan, pos |-> ps,
              lendable |-> reserve_lendable_vault - loan,
              redeemable |-> reserve_redeemable_mint,
              coin |-> swap_coin_vault + filled, pc |-> 0,
              proxy |-> proxy_token_account[p] + minted ]
        \* the accounts once total_loan and position.loan are incremented
        part == [st(reserve, pos1) EXCEPT !.pc = pc3,
                                          !.proxy = proxy_token_account[p]]
    IN  IF ~valid_leverage_factor(g, leverage_factor)
        THEN Abort("InvalidLeverageFactor", <<>>, NoEffects)
        ELSE IF native_coin_qty = 0 \/ pc_lot_limit_price = 0 \/ including_fees = 0
        THEN Abort("InvalidArgument", <<>>, NoEffects)
        ELSE IF reserve_lendable_vault < loan0
        THEN Abort("TokenError", <<>>, NoEffects)
        ELSE IF loan = 0
        THEN Commit(t3 \o <<"return_trader_funds", "mint">>, eff, st(reserve, pos))
        ELSE IF IsNone(total_debt) \/ IsNone(limit)
        THEN AbortAfter("Panic", t3, eff, part)
        ELSE IF ~(total_loan < limit)
        THEN AbortAfter("BorrowLimitExceeded", t3, eff, part)
        ELSE IF IsNone(multiplier)
        THEN AbortAfter("Panic", t3, eff, part)
        ELSE IF ReservePanicked(upd[1]) \/ PositionPanicked(upd[2])
        THEN AbortAfter("Panic", t3, eff, part)
        ELSE Commit(t3 \o <<"return_trader_funds", "mint">>, eff, st(upd[1], upd[2]))

\* ------------------------------------------------------------------------
\* swap.rs : SwapPositionClose
\* ------------------------------------------------------------------------
\* A settlement that clears the whole loan also on a partial repayment.
close_settlement_whole_loan(current_debt, swap_pc_vault_balance, loan) ==
    IF current_debt > swap_pc_vault_balance
    THEN <<swap_pc_vault_balance, loan>>
    ELSE <<current_debt, loan>>

\* SwapPositionClose::handle, the settlement : <<debt_change, loan_change>>
close_settlement(current_debt, swap_pc_vault_balance, loan) ==
    IF current_debt > swap_pc_vault_balance
    THEN <<swap_pc_vault_balance,
           calculate_share(swap_pc_vault_balance, current_debt, loan)>>
    ELSE <<current_debt, loan>>

\* SwapPositionClose::reserve_update_state and
\* SwapPositionLiquidate::reserve_update_state : <<reserve, position>>
repay_reserve_update_state(self, g, pos, liquidity, timestamp, debt_change) ==
    LET total_debt == get_total_debt(self.debt, timestamp)
        r1 == update_state(self, g, total_debt, timestamp)
        dec == decrease_debt(r1, pos, timestamp, total_debt, debt_change)
        total_debt2 == get_total_debt(dec[1].debt, timestamp)
        r3 == update_borrow_rate(dec[1], g, liquidity, debt_change, 0,
                                 total_debt2, 0, 0)
    IN  IF IsNone(total_debt) \/ IsNone(r1.state.treasure_accrued)
        THEN <<[self EXCEPT !.debt.total = None], pos>>
        ELSE <<r3, dec[2]>>

\* SwapPositionClose::handle.  fill (lots) and exec_price are the venue's
\* answer to the immediate-or-cancel sell order.
SwapPositionClose(timestamp, p, limit_price, coin_qty, fill, exec_price) ==
    LET g == governance
        pos == position[p]
        native_coin_qty == coin_qty * CoinLot
        including_fees == limit_price * PcLot * coin_qty
        \* make_swap: new_order (Ask, ImmediateOrCancel) + settle_funds
        sold == fill * CoinLot
        proceeds == fill * exec_price * PcLot
        pc1 == swap_pc_vault + proceeds
        current_debt == get_debt(pos, timestamp)
        total_debt0 == get_total_debt(reserve.debt, timestamp)
        pool_debt == IF IsNone(total_debt0) THEN 0 ELSE total_debt0
        settle == close_settlement(current_debt, pc1, pos.loan)
        debt_change == IF current_debt > 0 THEN settle[1] ELSE 0
        loan_change == IF current_debt > 0 THEN settle[2] ELSE 0
        total_loan == checked_sub(swap.state.total_loan, loan_change)
        pos1 == [pos EXCEPT !.loan = checked_sub(pos.loan, loan_change)]
        upd == repay_reserve_update_state(reserve, g, pos1, reserve_lendable_vault,
                                          timestamp, debt_change)
        pc2 == pc1 - debt_change
        t1 == <<"burn", "sell">>
        t2 == IF current_debt > 0 THEN t1 \o <<"return_reserve_funds">> ELSE t1
        eff == [NoEffects EXCEPT !.filled = sold, !.proceeds = proceeds,
                                 !.burned = native_coin_qty,
                                 !.debt = IF IsNone(current_debt) THEN 0 ELSE current_debt,
                                 !.debt_change = debt_change,
                                 !.pool_debt = pool_debt,
                                 !.loan = IF IsNone(loan_change) THEN 0 ELSE loan_change,
                                 !.to_reserve = debt_change, !.to_trader = pc2]
        st(r, ps) ==
            [ reserve |-> r, total_loan |-> total_loan, pos |-> ps,
              lendable |-> reserve_lendable_vault + debt_change,
              redeemable |-> reserve_redeemable_mint,
              coin |-> swap_coin_vault - sold, pc |-> 0,
              proxy |-> proxy_token_account[p] - native_coin_qty ]
        \* the accounts once the proxy tokens are burned and the coin is sold
        part == [st(reserve, pos) EXCEPT !.total_loan = swap.state.total_loan,
                                         !.lendable = reserve_lendable_vault,
                                         !.pc = pc1]
    IN  IF native_coin_qty = 0 \/ including_fees = 0
        THEN Abort("InvalidArgument", <<>>, NoEffects)
        ELSE IF proxy_token_account[p] < native_coin_qty
        THEN Abort("TokenError", <<>>, NoEffects)
        ELSE IF swap_coin_vault < native_coin_qty
        THEN Abort("TokenError", <<"burn">>, NoEffects)
        ELSE IF IsNone(current_debt)
        THEN AbortAfter("Panic", t1, eff, part)
        ELSE IF current_debt = 0
        THEN Commit(t1 \o <<"return_trader_funds">>, eff,
                    [st(reserve, pos) EXCEPT !.total_loan = swap.state.total_loan])
        ELSE IF IsNone(loan_change) \/ IsNone(total_loan) \/ IsNone(pos1.loan)
        THEN AbortAfter("Panic", t1, eff, part)
        ELSE IF ReservePanicked(upd[1]) \/ PositionPanicked(upd[2])
        THEN AbortAfter("Panic", t2, eff, part)
        ELSE Commit(t2 \o <<"return_trader_funds">>, eff, st(upd[1], upd[2]))

\* ------------------------------------------------------------------------
\* swap.rs : SwapPositionLiquidate
\* ------------------------------------------------------------------------
\* SwapPositionLiquidate::handle, liqudation_cost
liquidation_cost(g, current_debt) ==
    checked_add(current_debt, percentage_mul(liquidation_margin(g), current_debt))

\* A check that finds no position without debt healthy.
is_healthy_only_with_debt(amount_output, cost) == cost > 0 /\ amount_output > cost

\* A check that also refuses proceeds equal to the liquidation cost.
is_healthy_inclusive(amount_output, cost) == amount_output >= cost

\* SwapPositionLiquidate::handle, the check `amount_output > liqudation_cost`
is_healthy(amount_output, cost) == amount_output > cost

\* A reward that is capped by max_liquidation_reward whatever its value.
liquidation_reward_always_capped(g, amount) ==
    Min(percentage_mul(liquidation_reward(g), amount), max_liquidation_reward(g))

\* SwapPositionLiquidate::pay_liquidation_reward, the reward
liquidation_reward_amount(g, amount) ==
    LET max_reward == max_liquidation_reward(g)
        reward == percentage_mul(liquidation_reward(g), amount)
    IN  IF max_reward # 0 /\ max_reward < reward THEN max_reward ELSE reward

\* A split that returns nothing to the trader.
liquidation_split_without_trader(amount_left, current_debt) ==
    LET trader_amount == checked_sub(amount_left, current_debt)
    IN  IF ~IsNone(trader_amount) /\ trader_amount # 0
        THEN <<current_debt, 0>>
        ELSE <<amount_left, 0>>

\* SwapPositionLiquidate::handle, the split of amount_left :
\* <<to the reserve vault, to the trader>>
liquidation_split(amount_left, current_debt) ==
    LET trader_amount == checked_sub(amount_left, current_debt)
    IN  IF ~IsNone(trader_amount) /\ trader_amount # 0
        THEN <<current_debt, trader_amount>>
        ELSE <<amount_left, 0>>

\* A liquidation that leaves the swap's total_loan as it was.
liquidation_total_loan_kept(total_loan, loan) == total_loan

\* SwapPositionLiquidate::handle, swap.state.total_loan less position.state.loan
liquidation_total_loan(total_loan, loan) == checked_sub(total_loan, loan)

\* A liquidation that writes off only what the reserve vault received.
liquidation_debt_change_received(current_debt, to_reserve) == to_reserve

\* SwapPositionLiquidate::handle, the debt passed to reserve_update_state
liquidation_debt_change(current_debt, to_reserve) == current_debt

\* SwapPositionLiquidate::handle.  fill (lots) and exec_price are the
\* venue's answer to the immediate-or-cancel sell order at limit price 1.
SwapPositionLiquidate(timestamp, p, fill, exec_price) ==
    LET g == governance
        pos == position[p]
        current_debt == get_debt(pos, timestamp)
        cost == liquidation_cost(g, current_debt)
        native_coin_qty == proxy_token_account[p]
        coin_qty == native_coin_qty \div CoinLot
        \* make_swap: new_order (Ask, ImmediateOrCancel) + settle_funds
        sold == fill * CoinLot
        proceeds == fill * exec_price * PcLot
        amount_output == swap_pc_vault + proceeds
        reward == liquidation_reward_amount(g, amount_output)
        amount_left == checked_sub(amount_output, reward)
        split == liquidation_split(amount_left, current_debt)
        total_loan == liquidation_total_loan(swap.state.total_loan, pos.loan)
        pos1 == [pos EXCEPT !.loan = 0]
        debt_change == liquidation_debt_change(current_debt, split[1])
        total_debt0 == get_total_debt(reserve.debt, timestamp)
        pool_debt == IF IsNone(total_debt0) THEN 0 ELSE total_debt0
        upd == repay_reserve_update_state(reserve, g, pos1, reserve_lendable_vault,
                                          timestamp, debt_change)
        t1 == <<"burn", "sell">>
        t2 == t1 \o <<"pay_liquidation_reward">>
        t3 == IF split[2] > 0
              THEN t2 \o <<"return_reserve_funds", "return_trader_funds">>
              ELSE t2 \o <<"return_reserve_funds">>
        eff0 == [NoEffects EXCEPT !.filled = sold, !.proceeds = proceeds,
                                  !.burned = native_coin_qty,
                                  !.debt = current_debt]
        eff == [eff0 EXCEPT !.reward = reward, !.to_reserve = split[1],
                            !.to_trader = split[2], !.loan = pos.loan,
                            !.debt_change = debt_change,
                            !.pool_debt = pool_debt]
        st(r, ps) ==
            [ reserve |-> r, total_loan |-> total_loan, pos |-> ps,
              lendable |-> reserve_lendable_vault + split[1],
              redeemable |-> reserve_redeemable_mint,
              coin |-> swap_coin_vault - sold,
              pc |-> amount_output - reward - split[1] - split[2],
              proxy |-> 0 ]
        \* the accounts once the proxy tokens are burned and the coin is sold
        part == [st(reserve, pos) EXCEPT !.total_loan = swap.state.total_loan,
                                         !.lendable = reserve_lendable_vault,
                                         !.pc = amount_output]
    IN  IF IsNone(current_debt) \/ IsNone(cost) \/ coin_qty = 0
        THEN Abort("Panic", <<>>, NoEffects)
        ELSE IF swap_coin_vault < coin_qty * CoinLot
        THEN Abort("TokenError", <<"burn">>, NoEffects)
        ELSE IF is_healthy(amount_output, cost)
        THEN AbortAfter("LiquidateHealthyPosition", t1, eff0, part)
        ELSE IF reward > amount_output
        THEN AbortAfter("TokenError", t1, eff0, part)
        ELSE IF IsNone(total_loan)
        THEN AbortAfter("Panic", t3, eff, part)
        ELSE IF ReservePanicked(upd[1]) \/ PositionPanicked(upd[2])
        THEN AbortAfter("Panic", t3, eff, part)
        ELSE Commit(t3, eff, st(upd[1], upd[2]))

\* ------------------------------------------------------------------------
\* reserve.rs : ReserveDeposit, ReserveWithdraw
\* ------------------------------------------------------------------------
\* ReserveDeposit::handle
ReserveDeposit(timestamp, amount) ==
    LET g == governance
        total_debt == get_total_debt(reserve.debt, timestamp)
        r1 == update_state(reserve, g, total_debt, timestamp)
        liquidity == reserve_lendable_vault
        r2 == update_borrow_rate(r1, g, liquidity, amount, 0, total_debt, 0, 0)
        total_supply == reserve_redeemable_mint
        total_liquidity == get_total_liquidity(r2, total_debt, liquidity)
        minted == mint_amount(amount, total_supply, total_liquidity)
        eff == [NoEffects EXCEPT !.minted = minted, !.to_reserve = amount,
                                 !.debt = total_debt]
    IN  IF IsNone(total_debt) \/ ReservePanicked(r2) \/ IsNone(total_liquidity)
           \/ IsNone(minted)
        THEN Abort("Panic", <<>>, NoEffects)
        ELSE Commit(<<"take_investor_funds", "mint_redeemable">>, eff,
                    [ reserve |-> r2, total_loan |-> swap.state.total_loan,
                      pos |-> ZeroPosition,
                      lendable |-> reserve_lendable_vault + amount,
                      redeemable |-> reserve_redeemable_mint + minted,
                      coin |-> swap_coin_vault, pc |-> swap_pc_vault,
                      proxy |-> 0 ])

\* ReserveWithdraw::reserve_update_state : <<burn_amount, amount_to_withdraw>>
withdraw_amounts(amount, total_supply, total_liquidity, liquidity) ==
    LET amount_to_withdraw == calculate_share(amount, total_supply, total_liquidity)
    IN  IF amount_to_withdraw > liquidity
        THEN <<wad_mul(amount, wad_div(liquidity, amount_to_withdraw)), liquidity>>
        ELSE <<amount, amount_to_withdraw>>

\* ReserveWithdraw::handle
ReserveWithdraw(timestamp, amount) ==
    LET g == governance
        liquidity == reserve_lendable_vault
        total_supply == reserve_redeemable_mint
        total_debt == get_total_debt(reserve.debt, timestamp)
        total_liquidity == get_total_liquidity(reserve, total_debt, liquidity)
        w == withdraw_amounts(amount, total_supply, total_liquidity, liquidity)
        r1 == update_state(reserve, g, total_debt, timestamp)
        r2 == update_borrow_rate(r1, g, liquidity, 0, w[2], total_debt, 0, 0)
        eff == [NoEffects EXCEPT !.burned = w[1], !.to_trader = w[2],
                                 !.debt = total_debt]
    IN  IF IsNone(total_debt) \/ IsNone(total_liquidity)
        THEN Abort("Panic", <<>>, NoEffects)
        ELSE IF IsNone(w[1]) \/ IsNone(w[2]) \/ ReservePanicked(r2)
        THEN Abort("Panic", <<>>, NoEffects)
        ELSE IF reserve_redeemable_mint < w[1]
        THEN Abort("TokenError", <<>>, NoEffects)
        ELSE Commit(<<"burn_redeemable", "payout_investor_funds">>, eff,
                    [ reserve |-> r2, total_loan |-> swap.state.total_loan,
                      pos |-> ZeroPosition,
                      lendable |-> reserve_lendable_vault - w[2],
                      redeemable |-> reserve_redeemable_mint - w[1],
                      coin |-> swap_coin_vault, pc |-> swap_pc_vault,
                      proxy |-> 0 ])

\* ------------------------------------------------------------------------
\* Inputs of the instructions and answers of the venue
\* ------------------------------------------------------------------------
InitialLiquidity == {0, 100}
DepositAmounts == {100}
WithdrawAmounts == {40}
OpenLimitPrices == {5}
OpenQuantities == {1}
LeverageFactors == {9999, 10000, 20000, 30000, 30001}
CloseLimitPrices == {5}
CloseQuantities == {1, 3}
SellPrices == {3, 4, 5}
\* Seconds between two instructions
ClockSteps == {0, 1}

\* The venue's answers <<filled lots, price>> to an immediate-or-cancel
\* order for qty lots: nothing, a part (of a buy order), or everything at
\* one of the prices.
VenueAnswers(side, qty, prices) ==
    LET best == CHOOSE e \in prices : \A f \in prices : f <= e
    IN  {<<0, best>>} \cup {<<qty, e>> : e \in prices}
            \cup (IF side = "Bid" THEN {<<qty - (qty \div 3), best>>} ELSE {})

\* A trader that never opened, or closed everything.
Pristine(t) == position[t] = ZeroPosition /\ proxy_token_account[t] = 0

\* ------------------------------------------------------------------------
\* Specification
\* ------------------------------------------------------------------------
ZeroReserve ==
    [ state |-> [borrow_rate |-> 0, treasure_accrued |-> 0, treasurer_update |-> 0],
      debt |-> [average_rate |-> 0, total |-> 0, last_update |-> 0] ]

NoInstruction ==
    [ op |-> "none", p |-> 0, args |-> <<>>, ts |-> 0, res |-> "Ok",
      trace |-> <<>>, eff |-> NoEffects ]

\* The accounts after the initialize instructions, and after a first
\* deposit at time 0 into the empty reserve.
InitWith(configs) ==
    /\ governance \in configs
    /\ \E liquidity \in InitialLiquidity :
         /\ reserve_lendable_vault = liquidity
         /\ reserve_redeemable_mint = liquidity
         /\ reserve =
              IF liquidity = 0 THEN ZeroReserve
              ELSE update_borrow_rate(ZeroReserve, governance, 0, liquidity, 0,
                                      0, 0, 0)
    /\ swap = [state |-> [total_loan |-> 0]]
    /\ position = [t \in Traders |-> ZeroPosition]
    /\ swap_coin_vault = 0
    /\ swap_pc_vault = 0
    /\ proxy_token_account = [t \in Traders |-> 0]
    /\ now = 0
    /\ last = NoInstruction
    /\ nops = 0
    /\ ledger = [added |-> 0, removed |-> 0, accrued |-> 0]

NoCall ==
    [ fn |-> "none", rate |-> 0, last_timestamp |-> 0, timestamp |-> 0,
      debt |-> 0, liquidity |-> 0, a |-> 0, b |-> 0, result |-> 0 ]

Init == InitWith({GovernanceBase}) /\ call = NoCall

InitConfigs == InitWith(GovernanceConfigs) /\ call = NoCall

\* The runtime commits the account writes and token movements of an
\* instruction only when its entry point returned Ok(()).
committed(out) == out.res = "Ok"

\* The runtime commits the accounts of a successful instruction and rolls
\* back everything a failed one did.  A failed instruction changes no
\* account, so the clock of the model is the time of the last successful
\* instruction, and what can follow a failed instruction is what could
\* follow the instruction before it: a behaviour records a failure as its
\* last step and is not continued from there.
Process(op, p, args, timestamp, out) ==
    /\ nops < MaxOps
    /\ last.res = "Ok"
    /\ timestamp <= MaxTime
    /\ last' = [ op |-> op, p |-> p, args |-> args, ts |-> timestamp,
                 res |-> out.res, trace |-> out.trace, eff |-> out.eff ]
    /\ UNCHANGED <<governance, ledger, call>>
    /\ IF committed(out)
       THEN /\ nops' = nops + 1
            /\ now' = timestamp
            /\ reserve' = out.st.reserve
            /\ swap' = [swap EXCEPT !.state.total_loan = out.st.total_loan]
            /\ position' = IF p \in Traders
                           THEN [position EXCEPT ![p] = out.st.pos]
                           ELSE position
            /\ reserve_lendable_vault' = out.st.lendable
            /\ reserve_redeemable_mint' = out.st.redeemable
            /\ swap_coin_vault' = out.st.coin
            /\ swap_pc_vault' = out.st.pc
            /\ proxy_token_account' = IF p \in Traders
                                      THEN [proxy_token_account EXCEPT ![p] = out.st.proxy]
                                      ELSE proxy_token_account
       ELSE UNCHANGED <<nops, now, reserve, swap, position, reserve_lendable_vault,
                        reserve_redeemable_mint, swap_coin_vault, swap_pc_vault,
                        proxy_token_account>>

Deposit ==
    \E dt \in ClockSteps, amount \in DepositAmounts :
        Process("deposit", 0, <<amount>>, now + dt, ReserveDeposit(now + dt, amount))

Withdraw ==
    \E dt \in ClockSteps, amount \in WithdrawAmounts :
        Process("withdraw", 0, <<amount>>, now + dt, ReserveWithdraw(now + dt, amount))

Open ==
    \E dt \in ClockSteps, p \in Traders, limit_price \in OpenLimitPrices,
       coin_qty \in OpenQuantities, leverage_factor \in LeverageFactors :
        \E a \in VenueAnswers(
                   "Bid",
                   coin_qty + percentage_mul(leverage_factor - FactorONE, coin_qty),
                   {limit_price}) :
            \* the traders are interchangeable: trader 2 opens second
            /\ p = 2 => ~Pristine(1)
            /\ Process("open", p, <<limit_price, coin_qty, leverage_factor>>, now + dt,
                       SwapPositionOpen(now + dt, p, limit_price, coin_qty,
                                        leverage_factor, a[1], a[2]))

Close ==
    \E dt \in ClockSteps, p \in Traders, limit_price \in CloseLimitPrices,
       coin_qty \in CloseQuantities :
        \E a \in VenueAnswers("Ask", coin_qty, {e \in SellPrices : e >= limit_price}) :
            Process("close", p, <<limit_price, coin_qty>>, now + dt,
                    SwapPositionClose(now + dt, p, limit_price, coin_qty, a[1], a[2]))

Liquidate ==
    \E dt \in ClockSteps, p \in Traders :
        \E a \in VenueAnswers("Ask", proxy_token_account[p] \div CoinLot, SellPrices) :
            Process("liquidate", p, <<>>, now + dt,
                    SwapPositionLiquidate(now + dt, p, a[1], a[2]))

Next == Deposit \/ Withdraw \/ Open \/ Close \/ Liquidate

Spec == Init /\ [][Next]_vars

SpecConfigs == InitConfigs /\ [][Next]_vars

\* ------------------------------------------------------------------------
\* reserve.rs : sequences of increase_debt / decrease_debt calls on one
\* reserve with one position, as SwapPositionOpen::reserve_update_state and
\* SwapPositionClose::reserve_update_state make them
\* ------------------------------------------------------------------------
MaxCalls == 4

BorrowAmounts == {10, 20}
RepayAmounts == {5}

InitDebt == Init /\ reserve_lendable_vault > 0

\* What a call of the sequence leaves unchanged
DebtCallFrame ==
    UNCHANGED <<governance, swap, reserve_redeemable_mint, swap_coin_vault,
                swap_pc_vault, proxy_token_account, call>>

\* reserve_update_state of an open: update_state, update_borrow_rate and
\* increase_debt for position 1.  An open borrows only with a leverage
\* above ONE.
IncreaseDebt ==
    \E dt \in ClockSteps, amount \in BorrowAmounts,
       leverage_factor \in {l \in LeverageFactors :
                               l > FactorONE /\ valid_leverage_factor(governance, l)} :
        LET timestamp == now + dt
            total_debt == get_total_debt(reserve.debt, timestamp)
            upd == open_reserve_update_state(
                       reserve, governance, position[1], reserve_lendable_vault,
                       timestamp, total_debt, amount,
                       rate_multiplier(governance, leverage_factor))
        IN  /\ nops < MaxCalls
            /\ timestamp <= MaxTime
            /\ amount <= reserve_lendable_vault
            /\ ~IsNone(total_debt)
            /\ ~ReservePanicked(upd[1]) /\ ~PositionPanicked(upd[2])
            /\ reserve' = upd[1]
            /\ position' = [position EXCEPT ![1] = upd[2]]
            /\ reserve_lendable_vault' = reserve_lendable_vault - amount
            /\ ledger' = [ledger EXCEPT
                              !.added = @ + amount,
                              !.accrued = @ + (total_debt - reserve.debt.total)]
            /\ now' = timestamp
            /\ nops' = nops + 1
            /\ last' = [NoInstruction EXCEPT
                            !.op = "increase_debt", !.p = 1,
                            !.args = <<amount, leverage_factor>>,
                            !.ts = timestamp,
                            !.eff = [NoEffects EXCEPT !.loan = amount,
                                                      !.pool_debt = total_debt]]
            /\ DebtCallFrame

\* reserve_update_state of a close: update_state, decrease_debt and
\* update_borrow_rate for position 1, repaying a part or all of its debt
DecreaseDebt ==
    \E dt \in ClockSteps :
        LET timestamp == now + dt
            current_debt == get_debt(position[1], timestamp)
            total_debt == get_total_debt(reserve.debt, timestamp)
        IN  \E debt_change \in {a \in RepayAmounts : a < current_debt} \cup {current_debt} :
                LET upd == repay_reserve_update_state(
                               reserve, governance, position[1],
                               reserve_lendable_vault, timestamp, debt_change)
                IN  /\ nops < MaxCalls
                    /\ timestamp <= MaxTime
                    /\ ~IsNone(current_debt) /\ current_debt > 0
                    /\ ~IsNone(total_debt)
                    /\ ~ReservePanicked(upd[1]) /\ ~PositionPanicked(upd[2])
                    /\ reserve' = upd[1]
                    /\ position' = [position EXCEPT ![1] = upd[2]]
                    /\ reserve_lendable_vault' = reserve_lendable_vault + debt_change
                    /\ ledger' = [ledger EXCEPT
                                      !.removed = @ + debt_change,
                                      !.accrued = @ + (total_debt - reserve.debt.total)]
                    /\ now' = timestamp
                    /\ nops' = nops + 1
                    /\ last' = [NoInstruction EXCEPT
                                    !.op = "decrease_debt", !.p = 1,
                                    !.args = <<debt_change>>,
                                    !.ts = timestamp,
                                    !.eff = [NoEffects EXCEPT
                                                !.debt = current_debt,
                                                !.debt_change = debt_change,
                                                !.pool_debt = total_debt]]
                    /\ DebtCallFrame

NextDebt == IncreaseDebt \/ DecreaseDebt

SpecDebt == InitDebt /\ [][NextDebt]_vars

\* ------------------------------------------------------------------------
\* math.rs : interest::calculate_compounded called on its own, for a rate
\* and a last_timestamp chosen at the start and every timestamp before and
\* after last_timestamp
\* ------------------------------------------------------------------------
MaxElapsed == 7

\* Rates per second in Rate units: zero, below one Ray unit, and up to 20 %
CompoundRates == {0, 5, 105, 4200, 10000, 20000}

LastTimestamps == {0, 2}

InitMath ==
    /\ InitWith({GovernanceBase}) /\ reserve_lendable_vault = 0
    /\ call \in {[NoCall EXCEPT !.rate = rate, !.last_timestamp = t, !.timestamp = t] :
                    rate \in CompoundRates, t \in LastTimestamps}

CalculateCompounded ==
    \E timestamp \in 0..(call.last_timestamp + MaxElapsed) :
        /\ call' = [call EXCEPT
                       !.fn = "calculate_compounded",
                       !.timestamp = timestamp,
                       !.result = calculate_compounded(call.rate, call.last_timestamp,
                                                       timestamp)]
        /\ UNCHANGED <<governance, reserve, swap, position, reserve_lendable_vault,
                       reserve_redeemable_mint, swap_coin_vault, swap_pc_vault,
                       proxy_token_account, now, last, nops, ledger>>

\* Debt and liquidity of a borrow_rate call: utilization is exactly the
\* optimal 15 % at (3, 17) and (15, 85), and undefined at (0, 0)
MaxDebtUnits == 20

LiquidityGrid == {0, 17, 85}

BorrowRate ==
    \E debt \in 0..MaxDebtUnits, liquidity \in LiquidityGrid :
        /\ call' = [call EXCEPT
                       !.fn = "borrow_rate",
                       !.debt = debt,
                       !.liquidity = liquidity,
                       !.result = borrow_rate(debt, liquidity, call.rate,
                                              excess_slope(governance),
                                              optimal_slope(governance),
                                              optimal_utilization(governance))]
        /\ UNCHANGED <<governance, reserve, swap, position, reserve_lendable_vault,
                       reserve_redeemable_mint, swap_coin_vault, swap_pc_vault,
                       proxy_token_account, now, last, nops, ledger>>

NextMath == CalculateCompounded \/ BorrowRate

SpecMath == InitMath /\ [][NextMath]_vars

\* ------------------------------------------------------------------------
\* math.rs : the mul-div operations and the Rate/Ray conversions called on
\* their own, each for every pair of operands of a grid
\* ------------------------------------------------------------------------
\* Operands: zero, small odd and even values (3, 7, 8 and 32 as divisors),
\* halves of the three scales and values above them
Operands == {0, 1, 3, 7, 8, 32, 50, 5000, 9999, 12345}

\* Rates to convert: multiples of RAY_RATIO and values in between
MaxRate == 45

InitKernel == InitWith({GovernanceBase}) /\ reserve_lendable_vault = 0 /\ call = NoCall

KernelFrame ==
    UNCHANGED <<governance, reserve, swap, position, reserve_lendable_vault,
                reserve_redeemable_mint, swap_coin_vault, swap_pc_vault,
                proxy_token_account, now, last, nops, ledger>>

PercentageMul ==
    \E self \in Operands, value \in Operands :
        /\ call' = [NoCall EXCEPT !.fn = "percentage_mul", !.a = self, !.b = value,
                                  !.result = percentage_mul(self, value)]
        /\ KernelFrame

WadMul ==
    \E a \in Operands, b \in Operands :
        /\ call' = [NoCall EXCEPT !.fn = "wad_mul", !.a = a, !.b = b,
                                  !.result = wad_mul(a, b)]
        /\ KernelFrame

WadDiv ==
    \E a \in Operands, b \in Operands :
        /\ call' = [NoCall EXCEPT !.fn = "wad_div", !.a = a, !.b = b,
                                  !.result = wad_div(a, b)]
        /\ KernelFrame

RayMul ==
    \E a \in Operands, b \in Operands :
        /\ call' = [NoCall EXCEPT !.fn = "ray_mul", !.a = a, !.b = b,
                                  !.result = ray_mul(a, b)]
        /\ KernelFrame

RayDiv ==
    \E a \in Operands, b \in Operands :
        /\ call' = [NoCall EXCEPT !.fn = "ray_div", !.a = a, !.b = b,
                                  !.result = ray_div(a, b)]
        /\ KernelFrame

RateIntoRay ==
    \E rate \in 0..MaxRate :
        /\ call' = [NoCall EXCEPT !.fn = "into_ray", !.a = rate,
                                  !.result = Rate_into_ray(rate)]
        /\ KernelFrame

RayAsRate ==
    \E ray \in 0..MaxRate :
        /\ call' = [NoCall EXCEPT !.fn = "as_rate", !.a = ray,
                                  !.result = as_rate(ray)]
        /\ KernelFrame

NextKernel ==
    PercentageMul \/ WadMul \/ WadDiv \/ RayMul \/ RayDiv \/ RateIntoRay \/ RayAsRate

SpecKernel == InitKernel /\ [][NextKernel]_vars

\* ------------------------------------------------------------------------
\* reserve.rs : a deposit of any amount followed at once by the withdrawal
\* of the redeemable tokens it minted, in reserves with and without debt
\* ------------------------------------------------------------------------
\* Amounts deposited: nothing, and amounts whose share of the supply is not
\* a whole number of Wad units
RoundTripDeposits == {0, 13, 75}

DepositAny ==
    \E dt \in ClockSteps, amount \in RoundTripDeposits :
        Process("deposit", 0, <<amount>>, now + dt, ReserveDeposit(now + dt, amount))

WithdrawMinted ==
    /\ last.op = "deposit"
    /\ Process("withdraw", 0, <<last.eff.minted>>, now, ReserveWithdraw(now, last.eff.minted))

NextRoundTrip == Open \/ DepositAny \/ WithdrawMinted

SpecRoundTrip == Init /\ [][NextRoundTrip]_vars

\* ------------------------------------------------------------------------
\* Properties
\* ------------------------------------------------------------------------
\* The last instruction was op and it succeeded: the accounts are those it
\* left.
Succeeded(op) == last.op = op /\ last.res = "Ok"

RECURSIVE SumOver(_, _)
SumOver(f, S) ==
    IF S = {} THEN 0
    ELSE LET t == CHOOSE x \in S : TRUE
         IN  f[t] + SumOver(f, S \ {t})

\* Supply of the proxy token: every mint and burn goes to a trader's account.
ProxySupply == SumOver(proxy_token_account, Traders)

\* C1: a successful open mints as many proxy tokens as it acquired coin from
\* the venue, so the proxy-token supply never exceeds the coin held in the
\* swap's coin vault, also when the buy order fills partially or not at all.
C1_MintedIsAcquired ==
    /\ Succeeded("open") => last.eff.minted = last.eff.filled
    /\ ProxySupply <= swap_coin_vault

\* The pool's debt projected to the clock, and the sum of the positions'
\* debts projected to the clock.
PoolDebt == get_total_debt(reserve.debt, now)

PositionsDebt == SumOver([t \in Traders |-> get_debt(position[t], now)], Traders)

AbsDiff(a, b) == IF a < b THEN b - a ELSE a - b

\* One unit of rounding for every position compounded on its own.
DebtTolerance == Cardinality(Traders)

\* The last instruction was a repayment that zeroed the pool's debt.
PoolJustZeroed ==
    (Succeeded("close") \/ Succeeded("liquidate")) /\ reserve.debt.total = 0

\* The repayment of the last instruction came from the last borrower: no
\* other position owes anything.
LastBorrowerRepaid == \A t \in Traders : t # last.p => position[t].amount = 0

\* C2: at every operation boundary the pool's projected debt equals the sum
\* of the positions' projected debts up to the rounding of per-position
\* compounding, and exactly when every operation happened at the same
\* timestamp, unless the last-borrower reset has just zeroed the pool.
C2_PoolDebtIsSumOfPositions ==
    ~(PoolJustZeroed /\ LastBorrowerRepaid)
    => /\ AbsDiff(PoolDebt, PositionsDebt) <= DebtTolerance
       /\ now = 0 => PoolDebt = PositionsDebt

\* C3: decrease_debt zeroes the pool's debt only for the last borrower: after
\* a successful close or liquidation, if another position still has a
\* non-zero amount then reserve.debt.total is greater than zero.
C3_ResetOnlyForLastBorrower ==
    ((Succeeded("close") \/ Succeeded("liquidate"))
        /\ \E t \in Traders : t # last.p /\ position[t].amount # 0)
    => reserve.debt.total > 0

\* A step of a successful instruction op / of an instruction op that failed.
Done(op) == last'.op = op /\ last'.res = "Ok" /\ nops' = nops + 1

Failed(op) == last'.op = op /\ last'.res # "Ok" /\ last.res = "Ok"

\* C4: an open that registers new debt succeeds only with total_loan, the
\* new loan included, strictly below pool_utilization_allowance x
\* total_liquidity (round-half-up), where total_liquidity is the pool's debt
\* projected to the open's timestamp + the reserve vault balance -
\* treasure_accrued, all as the open found them; an open whose total_loan
\* would reach the limit fails with BorrowLimitExceeded.
C4_BorrowLimit ==
    [][ LET total_liquidity ==
                get_total_debt(reserve.debt, last'.ts) + reserve_lendable_vault
                    - reserve.state.treasure_accrued
            limit == (total_liquidity * pool_utilization_allowance(governance)
                          + FactorHALF) \div FactorONE
            total_loan == swap.state.total_loan + last'.eff.loan
        IN  /\ (Done("open") /\ last'.eff.loan > 0)
                => /\ swap'.state.total_loan = total_loan
                   /\ total_loan < limit
            /\ (Failed("open") /\ last'.eff.loan > 0 /\ total_loan >= limit)
                => last'.res = "BorrowLimitExceeded"
            /\ (Failed("open") /\ last'.res = "BorrowLimitExceeded")
                => total_loan >= limit
      ]_vars

\* An open borrowed from a pool that already had debt and accrued fees.
C4_Witness ==
    /\ Succeeded("open") /\ last.eff.loan > 0 /\ last.eff.debt > 0
    /\ reserve.state.treasure_accrued > 0

\* An open was refused with total_loan exactly at the limit.
RefusedAtLimit ==
    /\ last.op = "open" /\ last.res = "BorrowLimitExceeded"
    /\ swap.state.total_loan + last.eff.loan
         = percentage_mul(pool_utilization_allowance(governance),
               get_total_debt(reserve.debt, last.ts) + reserve_lendable_vault
                   - reserve.state.treasure_accrued)

\* The accounts of the program, without the clock and the bookkeeping of the
\* model.
accounts == <<governance, reserve, swap, position, reserve_lendable_vault,
              reserve_redeemable_mint, swap_coin_vault, swap_pc_vault,
              proxy_token_account>>

\* C5: a liquidation that sold the position's whole proxy balance fails with
\* LiquidateHealthyPosition exactly when the proceeds exceed the projected
\* debt + liquidation_margin x projected debt (round-half-up); the check
\* comes after the burn and the sell order and before the reward, the
\* repayment and every change of total_loan, position and reserve.
C5_HealthyCheckAfterUnwind ==
    [][ LET debt == get_debt(position[last'.p], last'.ts)
            margin == (debt * liquidation_margin(governance) + FactorHALF)
                          \div FactorONE
            sold == Len(last'.trace) >= 2 /\ last'.trace[2] = "sell"
            refused == last'.res = "LiquidateHealthyPosition"
        IN  (Done("liquidate") \/ Failed("liquidate"))
                => /\ sold => (refused <=> last'.eff.proceeds > debt + margin)
                   /\ refused => /\ last'.trace = <<"burn", "sell">>
                                 /\ last'.eff.burned = proxy_token_account[last'.p]
                                 /\ UNCHANGED accounts
      ]_vars

\* A position with debt was found healthy after its coin had been sold.
C5_Witness ==
    /\ last.op = "liquidate" /\ last.res = "LiquidateHealthyPosition"
    /\ last.eff.debt > 0 /\ last.eff.proceeds > 0

\* liquidation_reward x proceeds, round-half-up
RewardShare ==
    (last.eff.proceeds * liquidation_reward(governance) + FactorHALF) \div FactorONE

\* C6 as stated: in every successful liquidation, for every governance
\* configuration, the reward is liquidation_reward x proceeds (round-half-up)
\* capped at max_liquidation_reward, and never exceeds max_liquidation_reward.
C6_RewardCapped ==
    Succeeded("liquidate")
    => /\ last.eff.reward = Min(RewardShare, max_liquidation_reward(governance))
       /\ last.eff.reward <= max_liquidation_reward(governance)

\* C6, amended: in every successful liquidation the reward is
\* liquidation_reward x proceeds (round-half-up), capped at
\* max_liquidation_reward only when max_liquidation_reward is not zero; a
\* max_liquidation_reward of zero leaves the reward uncapped.
C6_RewardCappedUnlessZero ==
    Succeeded("liquidate")
    => last.eff.reward =
         IF max_liquidation_reward(governance) = 0 THEN RewardShare
         ELSE Min(RewardShare, max_liquidation_reward(governance))

\* A liquidation paid a reward under a configuration without a maximum.
C6_Witness ==
    /\ Succeeded("liquidate") /\ max_liquidation_reward(governance) = 0
    /\ last.eff.reward > 0

\* A liquidation paid the maximum instead of the larger share.
RewardCapBinds ==
    /\ Succeeded("liquidate") /\ last.eff.reward < RewardShare

\* C7: in every successful liquidation the reserve vault receives the
\* position's full projected debt, the trader receives exactly proceeds -
\* reward - debt, and the pool's debt decreases by the amount the reserve
\* vault received.
C7_LiquidationSettlesFullDebt ==
    [][ LET debt == get_debt(position[last'.p], last'.ts)
            received == reserve_lendable_vault' - reserve_lendable_vault
        IN  Done("liquidate")
                => /\ received = debt
                   /\ last'.eff.to_trader
                        = last'.eff.proceeds - last'.eff.reward - debt
                   /\ get_total_debt(reserve.debt, last'.ts) - reserve'.debt.total
                        = received
      ]_vars

\* C8: a successful liquidation leaves the position zeroed (loan, amount,
\* rate and timestamp are 0) and without proxy tokens, and total_loan lower
\* by exactly the loan the position had.
C8_LiquidationZeroesPosition ==
    [][ Done("liquidate")
            => /\ position'[last'.p] = ZeroPosition
               /\ proxy_token_account'[last'.p] = 0
               /\ swap'.state.total_loan
                    = swap.state.total_loan - position[last'.p].loan
      ]_vars

\* A position that owed more than its loan and more than the sale brought
\* was liquidated.
C8_Witness ==
    /\ Succeeded("liquidate") /\ last.eff.loan > 0
    /\ last.eff.debt > last.eff.loan
    /\ last.eff.to_reserve < last.eff.debt

\* C9: a close whose proceeds are at least the position's projected debt
\* transfers exactly the debt to the reserve vault, zeroes the position's
\* loan, amount, rate and timestamp, lowers total_loan by the loan the
\* position had, and returns proceeds - debt to the trader; such a close
\* never panics.
C9_CloseRepaysInFull ==
    [][ LET pos == position[last'.p]
            debt == get_debt(pos, last'.ts)
            proceeds == last'.eff.proceeds
            sold == Len(last'.trace) >= 2 /\ last'.trace[2] = "sell"
        IN  /\ (Done("close") /\ proceeds >= debt)
                => /\ reserve_lendable_vault' = reserve_lendable_vault + debt
                   /\ position'[last'.p] = ZeroPosition
                   /\ swap'.state.total_loan = swap.state.total_loan - pos.loan
                   /\ last'.eff.to_trader = proceeds - debt
                   /\ swap_pc_vault' = 0
            /\ (Failed("close") /\ sold /\ proceeds >= debt)
                => last'.res # "Panic"
      ]_vars

\* A close repaid a debt with accrued interest and returned the rest of the
\* proceeds to the trader.
C9_Witness ==
    /\ Succeeded("close") /\ last.eff.debt > last.eff.loan /\ last.eff.loan > 0
    /\ last.eff.proceeds > last.eff.debt
    /\ last.eff.to_trader = last.eff.proceeds - last.eff.debt

\* C10: a close whose proceeds are strictly less than the position's
\* projected debt sends all proceeds to the reserve vault and nothing to the
\* trader, leaves the position with amount = debt - proceeds, its rate
\* unchanged and timestamp = now, and lowers position.loan and total_loan by
\* the same share round(round(proceeds / debt) x loan), which is at most the
\* position's loan; such a close never panics.
C10_CloseRepaysInPart ==
    [][ LET pos == position[last'.p]
            debt == get_debt(pos, last'.ts)
            proceeds == last'.eff.proceeds
            ratio == (proceeds * WadONE + (debt \div 2)) \div debt
            share == (ratio * pos.loan + WadHALF) \div WadONE
            sold == Len(last'.trace) >= 2 /\ last'.trace[2] = "sell"
        IN  /\ (Done("close") /\ proceeds < debt)
                => /\ reserve_lendable_vault' = reserve_lendable_vault + proceeds
                   /\ last'.eff.to_trader = 0
                   /\ swap_pc_vault' = 0
                   /\ position'[last'.p].amount = debt - proceeds
                   /\ position'[last'.p].rate = pos.rate
                   /\ position'[last'.p].timestamp = last'.ts
                   /\ share <= pos.loan
                   /\ position'[last'.p].loan = pos.loan - share
                   /\ swap'.state.total_loan = swap.state.total_loan - share
            /\ (Failed("close") /\ sold /\ proceeds < debt)
                => last'.res # "Panic"
      ]_vars

\* A close repaid a part of a debt with accrued interest and a part of the
\* loan.
C10_Witness ==
    /\ Succeeded("close") /\ last.eff.proceeds > 0
    /\ last.eff.proceeds < last.eff.debt
    /\ last.eff.loan > 0 /\ position[last.p].loan > 0
    /\ position[last.p].timestamp > 0

\* C11: an open returns to the reserve vault the pc left after the buy, up
\* to the borrowed amount, and records only the net loan L = borrowed -
\* min(borrowed, leftover): position.loan and total_loan grow by L,
\* position.amount becomes the position's projected debt + L and
\* reserve.debt.total the pool's projected debt + L; with L = 0 the reserve
\* record and the position record do not change.  (The venue fills a buy at
\* its limit price.)
C11_OpenRecordsNetLoan ==
    [][ LET p == last'.p
            limit_price == last'.args[1]
            coin_qty == last'.args[2]
            leverage_factor == last'.args[3]
            qty_loan == (coin_qty * (leverage_factor - FactorONE) + FactorHALF)
                            \div FactorONE
            borrowed == limit_price * PcLot * qty_loan
            paid_in == limit_price * PcLot * (coin_qty + qty_loan)
            spent == (last'.eff.filled \div CoinLot) * limit_price * PcLot
            leftover == swap_pc_vault + paid_in - spent
            L == borrowed - Min(borrowed, leftover)
        IN  Done("open")
                => /\ reserve_lendable_vault' = reserve_lendable_vault - L
                   /\ position'[p].loan = position[p].loan + L
                   /\ swap'.state.total_loan = swap.state.total_loan + L
                   /\ L > 0 => /\ position'[p].amount
                                    = get_debt(position[p], last'.ts) + L
                               /\ reserve'.debt.total
                                    = get_total_debt(reserve.debt, last'.ts) + L
                   /\ L = 0 => /\ reserve' = reserve
                               /\ position' = position
      ]_vars

\* An open added a net loan, smaller than what it borrowed, to a position
\* whose debt had grown beyond its recorded amount.
C11_Witness ==
    /\ Succeeded("open") /\ last.eff.loan > 0 /\ last.eff.to_reserve > 0
    /\ position[last.p].loan > last.eff.loan
    /\ position[last.p].amount > position[last.p].loan

\* An open at leverage ONE, and a leveraged open whose buy filled nothing,
\* recorded no loan although the position owes from earlier.
C11_NoLoanReached ==
    /\ Succeeded("open") /\ last.eff.loan = 0 /\ position[last.p].amount > 0

\* C12: an open with leverage_factor below ONE or above
\* governance.max_leverage_factor fails with InvalidLeverageFactor before any
\* transfer, order or mint and without changing any account; every
\* leverage_factor from ONE to max_leverage_factor passes the check.
C12_LeverageFactorChecked ==
    [][ LET leverage_factor == last'.args[3]
            max == governance.max_leverage_factor \div ACCURACY_DIVISOR
            inside == FactorONE <= leverage_factor /\ leverage_factor <= max
        IN  (Done("open") \/ Failed("open"))
                => /\ ~inside => /\ last'.res = "InvalidLeverageFactor"
                                 /\ last'.trace = <<>>
                                 /\ last'.eff = NoEffects
                                 /\ UNCHANGED accounts
                   /\ inside => last'.res # "InvalidLeverageFactor"
      ]_vars

\* An open below ONE was refused when the pool already had debt.
C12_Witness ==
    /\ last.op = "open" /\ last.res = "InvalidLeverageFactor"
    /\ last.args[3] < FactorONE /\ reserve.debt.total > 0

\* An open above the maximum was refused, and one at the maximum borrowed.
C12_AboveMaxRefused ==
    /\ last.op = "open" /\ last.res = "InvalidLeverageFactor"
    /\ last.args[3] > max_leverage_factor(governance)

C12_AtMaxBorrowed ==
    /\ Succeeded("open") /\ last.args[3] = max_leverage_factor(governance)
    /\ last.eff.loan > 0

\* Failures that the handlers detect after they have written accounts or
\* moved tokens. The handlers undo nothing themselves; that such an
\* instruction leaves no trace is the runtime's transaction rollback.
\* An open was refused at the borrow limit after it had taken the loan from
\* the reserve vault, bought coin and incremented total_loan.
OpenRefusedAfterIncrement ==
    /\ last.op = "open" /\ last.res = "BorrowLimitExceeded"
    /\ last.eff.loan > 0 /\ last.eff.filled > 0
    /\ Len(last.trace) >= 3

\* A liquidation was refused after the burn and the sell; a close or a
\* liquidation panicked after them.
LiquidateRefusedAfterSell ==
    /\ last.op = "liquidate" /\ last.res = "LiquidateHealthyPosition"
    /\ last.trace = <<"burn", "sell">> /\ last.eff.filled > 0

PanicAfterSell ==
    /\ last.op \in {"close", "liquidate"} /\ last.res = "Panic"
    /\ Len(last.trace) >= 2

\* C14: reserve.state.treasure_accrued never decreases: no deposit, withdraw,
\* open, close or liquidate leaves it smaller than it found it.
C14_TreasureMonotonic ==
    [][ reserve'.state.treasure_accrued >= reserve.state.treasure_accrued ]_vars

\* Fees were accrued on grown debt, and an instruction that accrued nothing
\* ran after that.
C14_Witness ==
    /\ reserve.state.treasure_accrued > 0
    /\ last.res = "Ok" /\ last.ts = reserve.state.treasurer_update
    /\ reserve.debt.last_update < reserve.state.treasurer_update

\* The locked rates of the positions that owe something.
IndebtedRates == {position[t].rate : t \in {u \in Traders : position[u].amount # 0}}

\* Rounding of the weighted-average computation, in Rate units.  Each
\* weighted term rate x debt is rounded by ray_mul to a unit that is worth
\* WadRayRatio / debt.total Ray steps of the quotient, ray_div rounds the
\* quotient once more, and every instruction so far may have done so.
RateTolerance ==
    MaxOps * RAY_RATIO * ((WadRayRatio \div reserve.debt.total) + 1)

\* C15: whenever reserve.debt.total > 0, reserve.debt.average_rate lies
\* between the smallest and the largest locked rate of the positions with a
\* non-zero amount, up to rounding; with one indebted position it equals
\* that position's rate up to rounding.
C15_AverageRateWithinPositionRates ==
    (reserve.debt.total > 0 /\ IndebtedRates # {})
    => \E lo \in IndebtedRates, hi \in IndebtedRates :
          /\ \A r \in IndebtedRates : lo <= r /\ r <= hi
          /\ lo - RateTolerance <= reserve.debt.average_rate
          /\ reserve.debt.average_rate <= hi + RateTolerance

\* The multiplier of the claim: (leverage_factor - ONE) x (max_rate_multiplier
\* - ONE) / (max_leverage_factor - ONE) + ONE, with truncating division.
LinearMultiplier(leverage_factor) ==
    ((leverage_factor - FactorONE)
        * (governance.max_rate_multiplier \div ACCURACY_DIVISOR - FactorONE))
      \div (governance.max_leverage_factor \div ACCURACY_DIVISOR - FactorONE)
    + FactorONE

\* The leverage factors that pass the check of swap_position_open.
ValidLeverageFactors ==
    {l \in LeverageFactors :
        FactorONE <= l /\ l <= governance.max_leverage_factor \div ACCURACY_DIVISOR}

\* C16: the multiplier of a new borrow is (leverage_factor - ONE) x
\* (max_rate_multiplier - ONE) / (max_leverage_factor - ONE) + ONE; it is
\* non-decreasing in leverage_factor, within [ONE, max_rate_multiplier] and
\* equal to max_rate_multiplier at max_leverage_factor; the rate locked for a
\* new borrow is the multiplier times the reserve's borrow rate
\* (round-half-up), which a position without earlier debt takes as its rate
\* up to the rounding of the weighted average.
C16_RateMultiplierLinear ==
    [][ LET p == last'.p
            leverage_factor == last'.args[3]
            max == governance.max_rate_multiplier \div ACCURACY_DIVISOR
            m == LinearMultiplier(leverage_factor)
            locked == (m * reserve'.state.borrow_rate + FactorHALF) \div FactorONE
            rounding == RAY_RATIO * ((WadRayRatio \div (2 * last'.eff.loan)) + 2)
        IN  (Done("open") /\ last'.eff.loan > 0)
                => /\ \A l1 \in ValidLeverageFactors, l2 \in ValidLeverageFactors :
                        /\ rate_multiplier(governance, l1) = LinearMultiplier(l1)
                        /\ FactorONE <= LinearMultiplier(l1)
                        /\ LinearMultiplier(l1) <= max
                        /\ l1 <= l2 => LinearMultiplier(l1) <= LinearMultiplier(l2)
                   /\ FactorONE <= m /\ m <= max
                   /\ leverage_factor = governance.max_leverage_factor \div ACCURACY_DIVISOR
                        => m = max
                   /\ position[p].amount = 0
                        => AbsDiff(position'[p].rate, locked) <= rounding
      ]_vars

\* A first borrow at a leverage strictly between ONE and the maximum locked
\* a rate above the reserve's borrow rate.
C16_Witness ==
    /\ Succeeded("open") /\ last.eff.loan > 0
    /\ last.args[3] > FactorONE
    /\ last.args[3] < max_leverage_factor(governance)
    /\ position[last.p].amount = last.eff.loan
    /\ position[last.p].rate > reserve.state.borrow_rate

\* A first borrow at the maximum leverage locked the doubled borrow rate.
C16_AtMaxReached ==
    /\ Succeeded("open") /\ last.eff.loan > 0
    /\ last.args[3] = max_leverage_factor(governance)
    /\ position[last.p].amount = last.eff.loan
    /\ position[last.p].rate > reserve.state.borrow_rate + reserve.state.borrow_rate \div 2

\* Position states decrease_debt may be handed: no debt, and debts at a low
\* and a high locked rate.
PositionStates ==
    {[loan |-> a, rate |-> r, amount |-> a, timestamp |-> 0] :
        a \in {0, 10, 30}, r \in {0, 4200, 41500}}

\* C17: a decrease_debt call whose amount equals or exceeds the pool's total
\* debt passed in leaves reserve.debt.total = 0 and reserve.debt.average_rate
\* = 0, whatever the position's state: in every close and liquidation that
\* repays at least the pool's projected debt, and for the pool side of
\* decrease_debt on every reserve a close or liquidation found, for every
\* position state.
C17_FullRepaymentZeroesPool ==
    [][ LET reserve_total_debt == get_total_debt(reserve.debt, last'.ts)
            called == (Done("close") /\ last'.eff.debt > 0) \/ Done("liquidate")
        IN  /\ (called /\ last'.eff.debt_change >= reserve_total_debt)
                => /\ reserve'.debt.total = 0
                   /\ reserve'.debt.average_rate = 0
                   /\ reserve'.debt.last_update = last'.ts
            /\ called
                => \A pos \in PositionStates, excess \in {0, 1} :
                       decrease_debt_pool(reserve, pos, reserve_total_debt,
                                          reserve_total_debt + excess)
                           = <<0, 0>>
      ]_vars

\* A close repaid exactly the pool's projected debt, grown by interest, and
\* the pool was zeroed.
C17_Witness ==
    /\ Succeeded("close") /\ last.eff.pool_debt > 0
    /\ last.eff.debt_change = last.eff.pool_debt
    /\ last.eff.debt_change > last.eff.loan
    /\ reserve.debt.total = 0 /\ reserve.debt.average_rate = 0

\* The sum of the amounts added minus the sum of the amounts removed.
LedgerBalance == ledger.added - ledger.removed

\* C18 as stated: after any sequence of increase_debt / decrease_debt calls
\* on one reserve with one position, reserve.debt.total equals the sum of the
\* amounts added minus the sum of the amounts removed, up to one unit of
\* rounding for each call.
C18_DebtIsAddedMinusRemoved ==
    AbsDiff(reserve.debt.total, LedgerBalance) <= nops

\* C18, amended: reserve.debt.total equals the sum of the amounts added
\* minus the sum of the amounts removed plus the interest the pool accrued
\* between the calls, up to one unit of rounding for each call; it equals
\* added - removed exactly as long as no time has passed, and it equals the
\* position's amount up to one unit for each call.
C18_DebtIsAddedMinusRemovedPlusInterest ==
    /\ AbsDiff(reserve.debt.total, LedgerBalance + ledger.accrued) <= nops
    /\ now = 0 => reserve.debt.total = LedgerBalance
    /\ AbsDiff(reserve.debt.total, position[1].amount) <= nops

\* Debt was added, grew by interest, was added to again and repaid in part.
C18_Witness ==
    /\ last.op = "decrease_debt" /\ ledger.accrued > nops
    /\ ledger.added > 20 /\ ledger.removed > 0
    /\ reserve.debt.total > 0

\* A call of calculate_compounded has been made / is made by the step.
Compounded == call.fn = "calculate_compounded"

\* C19: calculate_compounded is monotone in the end time: for a fixed rate
\* and last_timestamp t <= t1 <= t2, the value for t2 is at least the value
\* for t1; for timestamp = last_timestamp the value is exactly Ray::ONE, for
\* every rate.
C19_CompoundedMonotone ==
    [][ /\ (call'.fn = "calculate_compounded"
                /\ call'.timestamp = call'.last_timestamp)
            => call'.result = RayONE
        /\ (Compounded /\ call'.fn = "calculate_compounded"
                /\ call.last_timestamp <= call.timestamp
                /\ call.timestamp <= call'.timestamp)
            => /\ call'.rate = call.rate
               /\ call'.last_timestamp = call.last_timestamp
               /\ call'.result >= call.result
      ]_vars

\* A rate above zero was compounded over more seconds than the loop has
\* terms, to more than the linear interest.
C19_Witness ==
    /\ Compounded /\ call.rate > 0
    /\ call.timestamp - call.last_timestamp > 5
    /\ call.result > RayONE
                       + (call.rate \div RAY_RATIO)
                           * (call.timestamp - call.last_timestamp)

\* C20: for timestamp > last_timestamp calculate_compounded returns
\* ONE + rate x n + term_1 + .. + term_4 with n the elapsed seconds, term_0 =
\* rate x n and term_i = rate x term_(i-1) x (n - i) / (i + 1) (ray_mul,
\* then truncating division), the sum stopping at the first i with n - i <=
\* 0, so it has at most six terms; for timestamp < last_timestamp it returns
\* no value.
C20_CompoundedIsTruncatedBinomial ==
    Compounded
    => LET n == call.timestamp - call.last_timestamp
           rate == call.rate \div RAY_RATIO
           times_rate(x) == (rate * x + RayHALF) \div RayONE
           term0 == rate * n
           term1 == times_rate(term0 * (n - 1)) \div 2
           term2 == times_rate(term1 * (n - 2)) \div 3
           term3 == times_rate(term2 * (n - 3)) \div 4
           term4 == times_rate(term3 * (n - 4)) \div 5
       IN  /\ n < 0 => IsNone(call.result)
           /\ n > 0 => call.result =
                  RayONE + term0
                    + (IF n > 1 THEN term1 ELSE 0)
                    + (IF n > 2 THEN term2 ELSE 0)
                    + (IF n > 3 THEN term3 ELSE 0)
                    + (IF n > 4 THEN term4 ELSE 0)

\* A compounding at 10 % per second or more over more than five seconds,
\* which more than doubles.
C20_Witness ==
    /\ Compounded /\ call.timestamp - call.last_timestamp > 5
    /\ call.rate \div RAY_RATIO >= RayONE \div 10
    /\ call.result > 2 * RayONE

\* A call with a timestamp before last_timestamp returned no value.
C20_FailureReached ==
    /\ Compounded /\ call.timestamp < call.last_timestamp /\ IsNone(call.result)

\* ------------------------------------------------------------------------
\* interest::borrow_rate as a function of utilization
\* ------------------------------------------------------------------------
\* The call recorded in `call` was borrow_rate and it returned a rate.
BorrowRateReturned(c) == c.fn = "borrow_rate" /\ ~IsNone(c.result)

Utilization(c) == calculate_utilization(c.debt, c.liquidity)

\* The two formulas of the curve, in Ray, for the base rate of the call
BelowOptimalFormula(c, u) ==
    Rate_into_ray(c.rate)
        + ray_mul(optimal_slope(governance), ray_div(u, optimal_utilization(governance)))

AboveOptimalFormula(c, u) ==
    Rate_into_ray(c.rate) + optimal_slope(governance)
        + ray_mul(excess_slope(governance),
                  ray_div(u - optimal_utilization(governance),
                          Ray_invert(optimal_utilization(governance))))

\* The base rate in Ray plus the optimal slope, as the Rate borrow_rate returns
RateAtOptimal(c) == as_rate(Rate_into_ray(c.rate) + optimal_slope(governance))

\* C21: borrow_rate is continuous at the kink and non-decreasing in
\* utilization. When the utilization of a call equals optimal_utilization
\* exactly, the result is the base rate (in Ray) plus optimal_slope, and both
\* formulas of the curve give that value there; of two successive calls with
\* the same base rate, the one with the larger utilization never returns the
\* smaller rate, below, at and above the kink.
C21_BorrowRateContinuousMonotone ==
    [][ BorrowRateReturned(call') =>
          /\ (Utilization(call') = optimal_utilization(governance) =>
                /\ call'.result = RateAtOptimal(call')
                /\ as_rate(BelowOptimalFormula(call', Utilization(call'))) = call'.result
                /\ as_rate(AboveOptimalFormula(call', Utilization(call'))) = call'.result)
          /\ (BorrowRateReturned(call) /\ Utilization(call) <= Utilization(call') =>
                call.result <= call'.result)
      ]_vars

\* borrow_rate was called exactly at the kink with a positive base rate and
\* with debt on both shapes of reserve that give 15 %.
C21_Witness ==
    /\ BorrowRateReturned(call)
    /\ Utilization(call) = optimal_utilization(governance)
    /\ call.debt = 15 /\ call.liquidity = 85
    /\ call.rate = 4200
    /\ call.result = RateAtOptimal(call)

\* ------------------------------------------------------------------------
\* The mul-div operations and the conversions of the numeric kernel
\* ------------------------------------------------------------------------
\* r is the integer nearest to the rational n / d, the upper one of the two
\* when n / d lies exactly between two integers: r - 1/2 <= n / d < r + 1/2.
NearestTiesUp(r, n, d) == 2 * r * d - d <= 2 * n /\ 2 * n < 2 * r * d + d

\* C22: percentage_mul, wad_mul, wad_div, ray_mul and ray_div return the
\* unique integer nearest to the exact rational result (a x b / ONE for the
\* multiplications, a x ONE / b for the divisions), rounding a tie upwards;
\* this holds for every positive divisor, the odd ones included.
C22_MulDivRoundsToNearest ==
    /\ call.fn = "percentage_mul" => NearestTiesUp(call.result, call.a * call.b, FactorONE)
    /\ call.fn = "wad_mul" => NearestTiesUp(call.result, call.a * call.b, WadONE)
    /\ call.fn = "ray_mul" => NearestTiesUp(call.result, call.a * call.b, RayONE)
    /\ (call.fn = "wad_div" /\ call.b > 0)
          => NearestTiesUp(call.result, call.a * WadONE, call.b)
    /\ (call.fn = "ray_div" /\ call.b > 0)
          => NearestTiesUp(call.result, call.a * RayONE, call.b)

\* 3 / 7 in Ray: an odd divisor, the quotient 4285.71.. rounded up to 4286.
C22_Witness ==
    /\ call.fn = "ray_div" /\ call.a = 3 /\ call.b = 7
    /\ call.result * call.b > call.a * RayONE
    /\ call.result = 4286

\* A tie was rounded upwards by a division (1 / 8 in Wad is 12.5) or by a
\* multiplication (3 x 0.5 in Ray units is 1.5).
C22_TieReached ==
    \/ call.fn = "wad_div" /\ call.a = 1 /\ call.b = 8 /\ call.result = 13
    \/ call.fn = "ray_mul" /\ call.a = 3 /\ call.b = RayHALF /\ call.result = 2

\* C23: the conversions between the Rate and the Ray scale are exact:
\* Rate::into_ray followed by Ray::as_rate yields the rate again, for every
\* rate.
C23_RateRayRoundTrip ==
    call.fn = "into_ray" => as_rate(call.result) = call.a

\* The other direction: Ray::as_rate followed by Rate::into_ray yields the
\* Ray value again.
RayRateRoundTrip ==
    call.fn = "as_rate" => Rate_into_ray(call.result) = call.a

\* The configured base rate as borrow_rate returns it for a reserve with
\* liquidity and no debt (utilization zero).
BaseRateReproducedAtZeroUtilization ==
    (BorrowRateReturned(call) /\ call.debt = 0 /\ call.liquidity > 0)
        => call.result = call.rate

\* ------------------------------------------------------------------------
\* Treasury fee accounting
\* ------------------------------------------------------------------------
Instructions == {"deposit", "withdraw", "open", "close", "liquidate"}

\* The step is a successful instruction that called Reserve::update_state:
\* every deposit, withdrawal and liquidation, an open that borrows and a
\* close of a position that owes.
UpdatedState ==
    \/ Done("deposit") \/ Done("withdraw") \/ Done("liquidate")
    \/ Done("open") /\ last'.eff.loan > 0
    \/ Done("close") /\ last'.eff.debt > 0

\* C24: every successful call of update_state adds to treasure_accrued exactly
\* treasure_factor x (total debt projected to the instruction's timestamp -
\* total debt projected to the previous treasury checkpoint), rounded half
\* up, and sets treasurer_update to the timestamp; with zero projected debt
\* it adds nothing and still advances treasurer_update. The interval up to
\* the timestamp is then closed: accruing again at the same timestamp, on
\* the accounts the instruction left, charges nothing.
C24_TreasuryChargesNewInterestOnce ==
    [][ UpdatedState =>
          LET current_debt == get_total_debt(reserve.debt, last'.ts)
              previous_debt == get_total_debt(reserve.debt, reserve.state.treasurer_update)
              fee == IF current_debt = 0 THEN 0
                     ELSE (treasure_factor(governance) * (current_debt - previous_debt)
                              + FactorHALF) \div FactorONE
          IN  /\ reserve'.state.treasure_accrued = reserve.state.treasure_accrued + fee
              /\ reserve'.state.treasurer_update = last'.ts
              /\ get_liquidity_fee_accrued(reserve', governance,
                                           get_total_debt(reserve'.debt, last'.ts))
                    = reserve'.state.treasure_accrued
      ]_vars

\* A deposit or withdrawal charged the fee on interest that accrued since
\* the debt was last changed.
C24_Witness ==
    /\ last.res = "Ok" /\ last.op \in {"deposit", "withdraw"}
    /\ reserve.debt.total > 0
    /\ reserve.debt.last_update < last.ts
    /\ reserve.state.treasurer_update = last.ts
    /\ reserve.state.treasure_accrued > 0

\* An instruction on a reserve without debt advanced the checkpoint and
\* charged nothing.
C24_ZeroDebtReached ==
    /\ last.res = "Ok" /\ last.op # "none" /\ last.ts > 0
    /\ reserve.debt.total = 0
    /\ reserve.state.treasurer_update = last.ts
    /\ reserve.state.treasure_accrued = 0

\* ------------------------------------------------------------------------
\* Loan principal of the swap and of its positions
\* ------------------------------------------------------------------------
PositionsLoan == SumOver([t \in Traders |-> position[t].loan], Traders)

\* C25: swap.state.total_loan equals the sum of position.state.loan over all
\* positions of the swap, after every interleaving of successful opens,
\* closes and liquidations (and of deposits and withdrawals, which touch
\* neither).
C25_TotalLoanIsSumOfLoans == swap.state.total_loan = PositionsLoan

\* A position with a loan was liquidated or closed while the other trader's
\* loan stays on the books.
C25_Witness ==
    /\ last.res = "Ok" /\ last.op \in {"close", "liquidate"}
    /\ last.eff.loan > 0
    /\ position[last.p].loan = 0
    /\ swap.state.total_loan > 0
    /\ swap.state.total_loan = PositionsLoan

\* A close repaid part of a loan: the position keeps the rest.
C25_PartialCloseReached ==
    /\ Succeeded("close") /\ last.eff.loan > 0
    /\ position[last.p].loan > 0

\* ------------------------------------------------------------------------
\* Quote funds passing through the swap's pc vault
\* ------------------------------------------------------------------------
\* C26: quote funds are conserved through the swap's pc vault. If the vault
\* is empty before a successful open, close or liquidation it is empty
\* after it; the proceeds of a liquidation's sale equal liquidator reward +
\* amount returned to the reserve + amount returned to the trader, and the
\* proceeds of a close's sale equal amount returned to the reserve + amount
\* returned to the trader; the reserve's vault grows by what was returned
\* to it.
C26_QuoteFundsConserved ==
    [][ ((Done("open") \/ Done("close") \/ Done("liquidate")) /\ swap_pc_vault = 0) =>
          /\ swap_pc_vault' = 0
          /\ Done("liquidate") =>
                /\ last'.eff.proceeds
                      = last'.eff.reward + last'.eff.to_reserve + last'.eff.to_trader
                /\ reserve_lendable_vault' = reserve_lendable_vault + last'.eff.to_reserve
          /\ Done("close") =>
                /\ last'.eff.proceeds = last'.eff.to_reserve + last'.eff.to_trader
                /\ reserve_lendable_vault' = reserve_lendable_vault + last'.eff.to_reserve
      ]_vars

\* A liquidation's proceeds were split three ways, each part positive.
C26_Witness ==
    /\ Succeeded("liquidate") /\ swap_pc_vault = 0
    /\ last.eff.reward > 0 /\ last.eff.to_reserve > 0 /\ last.eff.to_trader > 0
    /\ last.eff.proceeds = last.eff.reward + last.eff.to_reserve + last.eff.to_trader

\* A close's proceeds were split between the reserve and the trader.
C26_CloseSplitReached ==
    /\ Succeeded("close") /\ swap_pc_vault = 0
    /\ last.eff.to_reserve > 0 /\ last.eff.to_trader > 0

\* ------------------------------------------------------------------------
\* The two timestamps of the reserve
\* ------------------------------------------------------------------------
\* C27: with a clock that never goes back, after every successful deposit,
\* withdrawal, open, close and liquidation reserve.state.treasurer_update >=
\* reserve.debt.last_update, so the projection of the debt to the treasury
\* checkpoint has a non-negative elapsed time and returns a value.
C27_TreasurerUpdateNotBeforeDebtUpdate ==
    /\ reserve.state.treasurer_update >= reserve.debt.last_update
    /\ ~IsNone(calculate_compounded(reserve.debt.average_rate, reserve.debt.last_update,
                                    reserve.state.treasurer_update))

\* Debt was registered after time had passed: the open moved both timestamps
\* to its own.
C27_Witness ==
    /\ Succeeded("open") /\ last.eff.loan > 0
    /\ reserve.debt.total > 0
    /\ reserve.debt.last_update > 0
    /\ reserve.state.treasurer_update = reserve.debt.last_update

\* A deposit or withdrawal moved the treasury checkpoint beyond the debt's
\* last update.
C27_CheckpointAheadReached ==
    /\ last.res = "Ok" /\ last.op \in {"deposit", "withdraw"}
    /\ reserve.debt.total > 0
    /\ reserve.state.treasurer_update > reserve.debt.last_update

\* ------------------------------------------------------------------------
\* Liquidation of positions without debt or without receipt tokens
\* ------------------------------------------------------------------------
\* The step is a liquidation, successful or not.
Liquidation == Done("liquidate") \/ Failed("liquidate")

\* C28: a position whose projected debt is zero is liquidated only when the
\* forced sale yields zero proceeds: with positive proceeds the liquidation
\* is rejected with LiquidateHealthyPosition. A position whose proxy token
\* account holds no receipt tokens is never liquidated: the instruction
\* aborts before anything is burned or sold.
C28_ZeroDebtLiquidation ==
    [][ Liquidation =>
          /\ get_debt(position[last'.p], last'.ts) = 0 =>
                /\ last'.res = "Ok" => last'.eff.proceeds = 0
                /\ last'.eff.proceeds > 0 => last'.res = "LiquidateHealthyPosition"
          /\ proxy_token_account[last'.p] = 0 =>
                /\ last'.res = "Panic"
                /\ last'.trace = <<>>
      ]_vars

\* A position with receipt tokens and no debt was liquidated: the sale
\* filled nothing.
C28_Witness ==
    /\ Succeeded("liquidate")
    /\ last.eff.debt = 0 /\ last.eff.burned > 0
    /\ last.eff.proceeds = 0

\* The same liquidation with a sale that filled was rejected as healthy.
C28_HealthyRefused ==
    /\ last.op = "liquidate" /\ last.res = "LiquidateHealthyPosition"
    /\ last.eff.debt = 0 /\ last.eff.proceeds > 0

\* A liquidation of a position without receipt tokens aborted.
C28_NoTokensAborted ==
    /\ last.op = "liquidate" /\ last.res = "Panic" /\ last.trace = <<>>
    /\ proxy_token_account[last.p] = 0

\* ------------------------------------------------------------------------
\* Deposit followed by the withdrawal of what it minted
\* ------------------------------------------------------------------------
\* The step withdraws, successfully and at the same timestamp, exactly the
\* redeemable tokens that the deposit before it minted.
RoundTrip ==
    /\ Done("withdraw")
    /\ last.op = "deposit" /\ last.res = "Ok"
    /\ last'.args = <<last.eff.minted>>
    /\ last'.ts = last.ts

\* C29: a deposit of x followed at once by the withdrawal of the redeemable
\* tokens it minted pays out at most x, in every reserve state in which
\* both succeed.
C29_RoundTripPaysAtMostDeposit ==
    [][ RoundTrip => last'.eff.to_trader <= last.args[1] ]_vars

\* A round trip in a reserve with debt paid out exactly the deposit.
C29_ExactRoundTripReached ==
    /\ Succeeded("withdraw") /\ reserve.debt.total > 0
    /\ last.eff.to_trader = last.eff.burned /\ last.eff.burned > 0

\* ------------------------------------------------------------------------
\* Deposits and withdrawals that would leave the reserve empty
\* ------------------------------------------------------------------------
\* The step is an attempt of the instruction, successful or not.
Attempt(op) == Done(op) \/ Failed(op)

\* C30: the refresh of the borrow rate is undefined when the debt and the
\* liquidity after the change are both zero, so no deposit or withdrawal
\* that would leave the reserve with zero debt and zero liquidity succeeds:
\* it aborts with a panic. The last depositor of a debt-free reserve cannot
\* withdraw all the remaining liquidity, and a deposit of zero into an empty
\* reserve fails.
C30_EmptyReserveAborts ==
    [][ /\ (Done("deposit") \/ Done("withdraw")) =>
              ~(get_total_debt(reserve'.debt, last'.ts) = 0 /\ reserve_lendable_vault' = 0)
        /\ (Attempt("deposit") /\ last'.args[1] = 0
                /\ reserve.debt.total = 0 /\ reserve_lendable_vault = 0)
              => last'.res = "Panic"
        /\ (Attempt("withdraw") /\ reserve.debt.total = 0 /\ reserve_lendable_vault > 0
                /\ calculate_share(last'.args[1], reserve_redeemable_mint,
                                   get_total_liquidity(reserve, 0, reserve_lendable_vault))
                     >= reserve_lendable_vault)
              => last'.res = "Panic"
      ]_vars

\* The only depositor of a debt-free reserve asked for all of its liquidity
\* and the withdrawal panicked.
C30_Witness ==
    /\ last.op = "withdraw" /\ last.res = "Panic"
    /\ reserve.debt.total = 0
    /\ reserve_lendable_vault > 0
    /\ last.args[1] = reserve_redeemable_mint
    /\ reserve_redeemable_mint = reserve_lendable_vault

\* A deposit of zero into an empty reserve panicked.
C30_ZeroDepositAborted ==
    /\ last.op = "deposit" /\ last.res = "Panic" /\ last.args = <<0>>
    /\ reserve.debt.total = 0 /\ reserve_lendable_vault = 0

====
